---- MODULE Spec2Model ----
(***************************************************************************)
(* The per-partition UPDATE/UPSERT write path of the storage node:         *)
(* UpdateTagNode / UpdateEdgeNode (read-modify-write under a row-level     *)
(* memory lock, index maintenance against the index state, one atomic      *)
(* batch handed to the replicated KV layer) and UpdateResNode.             *)
(***************************************************************************)
EXTENDS Integers, Sequences, FiniteSets, Bags, TLC

\* ------------------------------------------------------------------ bounds
\* Number of concurrently running update executors.
NumExec == 2
\* Total number of executor runs (requests, client retries included).
MaxRuns == 3
\* Number of times the index state of the partition may change.
MaxOracleChanges == 1

Executors == 1..NumExec

\* ------------------------------------------------------------------ values
\* Value::kNullValue; every other value is a natural number.
Null == -1

NoRow == [ver |-> 0, vals |-> <<>>]

\* Error codes (ErrorCode::...), by their semantic names.
SUCCEEDED == "SUCCEEDED"
ConcurrentModify == "E_STORAGE_QUERY_CONCURRENT_MODIFY"
InvalidData == "E_STORAGE_QUERY_INVALID_DATA"
FilteredOut == "E_STORAGE_QUERY_FILTER_NOT_PASSED"
KeyNotFound == "E_STORAGE_KVSTORE_KEY_NOT_FOUND"
NoDefaultAndNotNullable == "E_STORAGE_SCHEMA_NO_DEFAULT_VALUE_AND_NOT_NULLABLE"
PropNotFound(isEdge) ==
    IF isEdge THEN "E_STORAGE_SCHEMA_EDGE_PROP_NOT_FOUND"
    ELSE "E_STORAGE_SCHEMA_TAG_PROP_NOT_FOUND"
ReadPropFailed(isEdge) ==
    IF isEdge THEN "E_STORAGE_QUERY_READ_EDGE_PROP_FAILED"
    ELSE "E_STORAGE_QUERY_READ_TAG_PROP_FAILD"
SchemaNotFound(isEdge) ==
    IF isEdge THEN "E_STORAGE_SCHEMA_EDGE_NOT_FOUND"
    ELSE "E_STORAGE_SCHEMA_TAG_NOT_FOUND"
LeaderChanged == "E_LEADER_CHANGED"
Timeout == "E_RAFT_TIMEOUT"
Unknown == "E_UNKNOWN"
AtomicOpFailed == "E_ATOMIC_OP_FAILED"

\* ------------------------------------------------------------ expressions
\* The expression engine, a pure function over a property context.
\* An encoded expression is a record; op "bad" does not decode.
Const(k) == [op |-> "const", prop |-> "", k |-> k]
Prop(p) == [op |-> "prop", prop |-> p, k |-> 0]
Plus(p, k) == [op |-> "plus", prop |-> p, k |-> k]
Gt(p, k) == [op |-> "gt", prop |-> p, k |-> k]
BadExpr == [op |-> "bad", prop |-> "", k |-> 0]
NoFilter == [op |-> "none", prop |-> "", k |-> 0]

Decodes(x) == x.op # "bad"

Lookup(ctx, p) == IF p \in DOMAIN ctx THEN ctx[p] ELSE Null

Eval(x, ctx) ==
    CASE x.op = "const" -> x.k
      [] x.op = "prop" -> Lookup(ctx, x.prop)
      [] x.op = "plus" ->
            IF Lookup(ctx, x.prop) = Null THEN Null ELSE Lookup(ctx, x.prop) + x.k
      [] OTHER -> Null

\* Props an expression reads (the plan builder's depPropMap_ entry).
DepProps(x) == IF x.op \in {"prop", "plus", "gt"} THEN {x.prop} ELSE {}

\* A filter evaluates to TRUE, FALSE, or "illegal" (not a boolean).
EvalFilter(x, ctx) ==
    IF Lookup(ctx, x.prop) = Null THEN "illegal"
    ELSE IF Lookup(ctx, x.prop) > x.k THEN "true" ELSE "false"

\* A value of the wrong runtime type for its column (it encodes to nothing).
BadType == -2

\* ------------------------------------------------------------------ schema
\* A schema version: ordered fields and an optional TTL (column, duration).
Field(n, hasDef, def, nullable) ==
    [name |-> n, hasDefault |-> hasDef, default |-> def, nullable |-> nullable]
Schema(fs, ttlCol, ttlDuration) ==
    [fields |-> fs, ttlCol |-> ttlCol, ttlDuration |-> ttlDuration]

FieldNames(sch) == {sch.fields[i].name : i \in 1..Len(sch.fields)}
\* schema_->field(name): the field, or none (nullptr)
HasField(sch, n) == n \in FieldNames(sch)
FieldOf(sch, n) == sch.fields[CHOOSE i \in 1..Len(sch.fields) : sch.fields[i].name = n]

\* ------------------------------------------------------------------- keys
\* Keys of the store, all of one record shape.
KeyRec(kind, part, src, type, rank, dst, idx, vals) ==
    [kind |-> kind, part |-> part, src |-> src, type |-> type, rank |-> rank,
     dst |-> dst, idx |-> idx, vals |-> vals]
\* NebulaKeyUtils::vertexKey(vIdLen, partId, vId, tagId)
vertexKey(part, vid, tag) == KeyRec("vertex", part, vid, tag, 0, 0, 0, <<>>)
\* NebulaKeyUtils::edgeKey(vIdLen, partId, src, type, rank, dst)
edgeKey(part, src, type, rank, dst) == KeyRec("edge", part, src, type, rank, dst, 0, <<>>)
\* IndexKeyUtils::vertexIndexKey(vIdLen, partId, indexId, vId, values)
vertexIndexKey(part, indexId, vid, values) ==
    KeyRec("index", part, vid, 0, 0, 0, indexId, values)
\* IndexKeyUtils::edgeIndexKey(vIdLen, partId, indexId, src, rank, dst, values)
edgeIndexKey(part, indexId, src, rank, dst, values) ==
    KeyRec("index", part, src, 0, rank, dst, indexId, values)
\* OperationKeyUtils::deleteOperationKey(partId): unique per call (a timestamp)
deleteOperationKey(part, ts) == KeyRec("opDel", part, 0, 0, 0, 0, ts, <<>>)
\* OperationKeyUtils::modifyOperationKey(partId, key)
modifyOperationKey(part, k) == [k EXCEPT !.kind = "opMod", !.part = part]
\* The empty string: an index key that could not be computed.
EmptyKey == KeyRec("", 0, 0, 0, 0, 0, 0, <<>>)

\* ----------------------------------------------------------- rows, reader
\* An encoded row: the schema version that authored it and its columns.
Row(ver, vals) == [ver |-> ver, vals |-> vals]
IsRow(r) == r.ver # 0

\* QueryUtils::readValue(reader, propName, schema): the stored value, else the
\* latest schema's default, else null; fails if absent, non-nullable, undefaulted.
CanReadValue(row, n, sch) ==
    \/ n \in DOMAIN row.vals
    \/ FieldOf(sch, n).hasDefault
    \/ FieldOf(sch, n).nullable
readValue(row, n, sch) ==
    IF n \in DOMAIN row.vals THEN row.vals[n]
    ELSE IF FieldOf(sch, n).hasDefault THEN FieldOf(sch, n).default
    ELSE Null

\* RowWriterV2::setValue(name, value): the column must exist, the value must
\* have the column's type, and null needs a nullable column.
SetValueOk(sch, n, v) ==
    /\ HasField(sch, n)
    /\ v # BadType
    /\ (v = Null => FieldOf(sch, n).nullable)
\* RowWriterV2::finish(): every non-nullable column without default is set,
\* and a declared TTL column is set.
FinishOk(sch, props) ==
    /\ \A n \in FieldNames(sch) :
          (~FieldOf(sch, n).nullable /\ ~FieldOf(sch, n).hasDefault) => n \in DOMAIN props
    /\ (sch.ttlCol # "" => sch.ttlCol \in DOMAIN props)
\* The row the writer encodes under schema version ver: columns not set take
\* their default, or null.
Encode(sch, ver, props) ==
    Row(ver, [n \in FieldNames(sch) |->
                IF n \in DOMAIN props THEN props[n]
                ELSE IF FieldOf(sch, n).hasDefault THEN FieldOf(sch, n).default
                ELSE Null])

\* ---------------------------------------------------------------- indexes
IndexField(n, nullable) == [name |-> n, nullable |-> nullable]
IndexItem(id, schemaId, fs) == [indexId |-> id, schemaId |-> schemaId, fields |-> fs]

\* IndexKeyUtils::collectIndexValues(reader, fields): the indexed columns'
\* values; fails on an unknown column or a null in a non-nullable index column.
CollectOk(row, fs) ==
    \A i \in 1..Len(fs) :
        /\ fs[i].name \in DOMAIN row.vals
        /\ (row.vals[fs[i].name] = Null => fs[i].nullable)
collectIndexValues(row, fs) == [i \in 1..Len(fs) |-> row.vals[fs[i].name]]

\* CommonUtils::ttlValue(schema, reader) and IndexKeyUtils::indexVal: the
\* value of an index entry, the row's TTL anchor (empty without TTL).
NoTtl == [has |-> FALSE, v |-> 0]
HasTtl(sch) == sch.ttlCol # "" /\ sch.ttlDuration > 0
indexVal(sch, row) ==
    IF HasTtl(sch) /\ sch.ttlCol \in DOMAIN row.vals /\ row.vals[sch.ttlCol] \notin {Null, BadType}
    THEN [has |-> TRUE, v |-> row.vals[sch.ttlCol]]
    ELSE NoTtl

\* ------------------------------------------------------------ write batch
\* kvstore::BatchHolder: put and remove in insertion order.
BatchPut(k, v) == [op |-> "put", key |-> k, val |-> v]
BatchRemove(k) == [op |-> "remove", key |-> k, val |-> NoTtl]

MapPut(f, k, v) == [x \in DOMAIN f \cup {k} |-> IF x = k THEN v ELSE f[x]]
MapRemove(f, k) == [x \in DOMAIN f \ {k} |-> f[x]]

ApplyOp(st, o) == IF o.op = "put" THEN MapPut(st, o.key, o.val) ELSE MapRemove(st, o.key)

\* The replicated KV layer applies a batch in order, all of it at once.
RECURSIVE ApplyFrom(_, _, _)
ApplyFrom(st, batch, i) ==
    IF i > Len(batch) THEN st ELSE ApplyFrom(ApplyOp(st, batch[i]), batch, i + 1)
ApplyBatch(st, batch) == ApplyFrom(st, batch, 1)

\* ---------------------------------------------------------------- request
\* One row update: UpdateVertexRequest / UpdateEdgeRequest and the plan built
\* for it. For a vertex, vid is the vertex and type_ the tag id; for an edge,
\* (vid, etype, rank, dst) is the edge key and type_ the plan's edge type.
Update(n, x) == [name |-> n, value |-> x]
Request(isEdge, space, part, vid, etype, rank, dst, type_, ups, filter, insertable, yields) ==
    [isEdge |-> isEdge, space |-> space, part |-> part, vid |-> vid, etype |-> etype,
     rank |-> rank, dst |-> dst, type_ |-> type_, updatedProps |-> ups,
     filter |-> filter, insertable |-> insertable, yields |-> yields]
NoReq == Request(FALSE, 0, 0, 0, 0, 0, 0, 0, <<>>, NoFilter, FALSE, <<>>)

\* A faulty variant: the edge's lock key leaves out the rank, the vertex's the tag.
LockKey_short(r) ==
    IF r.isEdge THEN <<r.space, r.part, r.vid, r.etype, r.dst>>
    ELSE <<r.space, r.part, r.vid>>

\* The memory-lock key: VMLI (space, part, tag, vid), EMLI (space, part, src,
\* type, rank, dst).
LockKey(r) ==
    IF r.isEdge THEN <<r.space, r.part, r.vid, r.etype, r.rank, r.dst>>
    ELSE <<r.space, r.part, r.type_, r.vid>>

\* The key of the row the request targets.
RowKey(r) ==
    IF r.isEdge THEN edgeKey(r.part, r.vid, r.etype, r.rank, r.dst)
    ELSE vertexKey(r.part, r.vid, r.type_)

\* The implicit columns of the expression context (kVid, kTag / kSrc, kType,
\* kRank, kDst).
Implicit(r) ==
    IF r.isEdge
    THEN [n \in {"_src", "_type", "_rank", "_dst"} |->
            CASE n = "_src" -> r.vid [] n = "_type" -> r.etype
              [] n = "_rank" -> r.rank [] OTHER -> r.dst]
    ELSE [n \in {"_vid", "_tag"} |-> IF n = "_vid" THEN r.vid ELSE r.type_]

Merge(f, g) == [x \in DOMAIN f \cup DOMAIN g |-> IF x \in DOMAIN g THEN g[x] ELSE f[x]]

\* --------------------------------------- checkPropsAndGetDefaultValue
\* getDefaultOrNullValue: the field's default, else null, else an error.
HasDefaultOrNull(f) == f.hasDefault \/ f.nullable
\* A faulty variant: a column without default is given 0 instead of null.
getDefaultOrNullValue_zero(f) == IF f.hasDefault THEN f.default ELSE 0
getDefaultOrNullValue(f) == IF f.hasDefault THEN f.default ELSE Null

\* The result of a props computation: a code and the props map.
PropsRes(code, props) == [code |-> code, props |-> props]

\* The schema columns not in checkedProp take their default or null.
RestProps(sch, checked, props, isEdge) ==
    LET rest == FieldNames(sch) \ checked IN
    IF \E n \in rest : ~HasDefaultOrNull(FieldOf(sch, n))
    THEN PropsRes(NoDefaultAndNotNullable, props)
    ELSE PropsRes(SUCCEEDED,
                  Merge(props, [n \in rest |-> getDefaultOrNullValue(FieldOf(sch, n))]))

\* The set clause in order: a prop an update reads needs a default or null
\* unless checked before; the assigned prop itself only has to exist.
RECURSIVE CheckFrom(_, _, _, _, _, _)
CheckFrom(sch, ups, i, checked, props, isEdge) ==
    IF i > Len(ups) THEN RestProps(sch, checked, props, isEdge)
    ELSE
      LET deps == DepProps(ups[i].value) \ checked IN
      IF \E p \in deps : ~HasField(sch, p) THEN PropsRes(PropNotFound(isEdge), props)
      ELSE IF \E p \in deps : ~HasDefaultOrNull(FieldOf(sch, p))
      THEN PropsRes(NoDefaultAndNotNullable, props)
      ELSE IF ~HasField(sch, ups[i].name) THEN PropsRes(PropNotFound(isEdge), props)
      ELSE CheckFrom(sch, ups, i + 1, checked \cup deps \cup {ups[i].name},
                     Merge(props, [p \in deps |-> getDefaultOrNullValue(FieldOf(sch, p))]),
                     isEdge)
\* A faulty variant: a column assigned anywhere in the set clause counts as
\* checked from the start.
checkPropsAndGetDefaultValue_anyOrder(sch, ups, isEdge) ==
    CheckFrom(sch, ups, 1, {ups[i].name : i \in 1..Len(ups)}, <<>>, isEdge)
checkPropsAndGetDefaultValue(sch, ups, isEdge) == CheckFrom(sch, ups, 1, {}, <<>>, isEdge)

\* collTagProp / collEdgeProp: every column of the latest schema through
\* readValue.
collProps(sch, row, isEdge) ==
    IF \E n \in FieldNames(sch) : ~CanReadValue(row, n, sch)
    THEN PropsRes(ReadPropFailed(isEdge), <<>>)
    ELSE PropsRes(SUCCEEDED, [n \in FieldNames(sch) |-> readValue(row, n, sch)])

\* ------------------------------------------------- updateAndWriteBack, 1
\* The updates in order: decode, evaluate in the context, assign into props_
\* and into the context.
UpdRes(ok, props, ctx) == [ok |-> ok, props |-> props, ctx |-> ctx]
\* A faulty variant: the assignment is not written into the expression context.
AssignUpdate_noCtx(st, u) ==
    UpdRes(TRUE, MapPut(st.props, u.name, Eval(u.value, st.ctx)), st.ctx)
AssignUpdate(st, u) ==
    LET v == Eval(u.value, st.ctx) IN
    UpdRes(TRUE, MapPut(st.props, u.name, v), MapPut(st.ctx, u.name, v))
RECURSIVE ApplyUpdatesFrom(_, _, _)
ApplyUpdatesFrom(ups, i, st) ==
    IF i > Len(ups) THEN st
    ELSE IF ~Decodes(ups[i].value) THEN UpdRes(FALSE, st.props, st.ctx)
    ELSE ApplyUpdatesFrom(ups, i + 1, AssignUpdate(st, ups[i]))
ApplyUpdates(ups, props, ctx) == ApplyUpdatesFrom(ups, 1, UpdRes(TRUE, props, ctx))

\* rowWriter_->setValue for every prop, then finish().
EncodeOk(sch, props) ==
    /\ \A n \in DOMAIN props : SetValueOk(sch, n, props[n])
    /\ FinishOk(sch, props)

\* ------------------------------------------------------------------ state
VARIABLES
    cfg,          \* the environment of a run: catalog, indexes, requests, txnMan_,
                  \* and (history) the store it began with
    store,        \* the partition's KV engine: key -> value
    verticesML,   \* env_->verticesML_: the vertex lock keys held
    edgesML,      \* env_->edgesML_: the edge lock keys held
    indexState,   \* env_->getIndexState(space, part)
    oracleChanges,\* how often the index state has changed
    indexCount,   \* the counter IndexCountWrapper raises and lowers
    node,         \* per executor: its position in execute and its members
    result,       \* per executor: the DataSet its UpdateResNode writes
    runs,         \* executor runs begun
    clock,        \* the wall clock deleteOperationKey stamps its keys with
    tally,        \* history: the bag of (request, code) of the runs that returned
    lastConflict, \* history: per executor, the request its last run lost the lock on
    proc,         \* the request processor above the executors (BaseProcessor)
    eng,          \* a KV engine on its own (KVEngine)
    meta          \* the meta service: its schema catalog and the last response

vars == <<cfg, store, verticesML, edgesML, indexState, oracleChanges, indexCount,
          node, result, runs, clock, tally, lastConflict, proc, eng, meta>>

IndexStates == {"Normal", "Rebuilding", "Locked"}
\* env_->checkRebuilding(state), env_->checkIndexLocked(state)
checkRebuilding(st) == st = "Rebuilding"
checkIndexLocked(st) == st = "Locked"

\* Replies of the replicated KV layer to asyncAppendBatch.
IOError == "E_KVSTORE_IO_ERROR"
KvCodes == {SUCCEEDED, LeaderChanged, Timeout}
\* Codes RelNode::execute (the row read below the update node) may return.
ReadCodes == {SUCCEEDED, IOError}

EmptyDataSet == [colNames |-> <<>>, rows |-> <<>>]

\* (history) No reply of the KV layer has been delivered to the executor.
NoReply == "none"

\* An executor that is not running: the members as constructed.
IdleNode ==
    [pc |-> "idle", req |-> NoReq, lg |-> FALSE, ret |-> SUCCEEDED,
     exeResult |-> SUCCEEDED, insert |-> FALSE, resultStat |-> "NORMAL",
     reader |-> NoRow, val |-> NoRow, key |-> EmptyKey, props |-> <<>>, ctx |-> <<>>,
     nVal |-> NoRow, i |-> 0, phase |-> "", batch |-> <<>>, hasBatch |-> FALSE,
     appends |-> 0, didRead |-> FALSE, retry |-> FALSE, reply |-> NoReply]

Abs(x) == IF x < 0 THEN -x ELSE x

\* getLatestTagSchemaAndName / getLatestEdgeSchemaAndName: the versions kept
\* for the type; the last one is the latest.
SchemaVersions(c, r) ==
    LET tbl == IF r.isEdge THEN c.edgeSchemas ELSE c.tagSchemas
        id == IF r.isEdge THEN Abs(r.type_) ELSE r.type_
    IN IF id \in DOMAIN tbl THEN tbl[id] ELSE <<>>
HasLatestSchema(c, r) == Len(SchemaVersions(c, r)) > 0
LatestSchema(c, r) == SchemaVersions(c, r)[Len(SchemaVersions(c, r))]
LatestVer(c, r) == Len(SchemaVersions(c, r))

\* The edge update goes through the transaction manager when there is one and
\* it is enabled for the space.
UsesTxn(c, r) == r.isEdge /\ c.toss

\* indexKey(partId, vId / edgeKey, reader, index): empty when the values cannot
\* be collected.
indexKey(r, row, index) ==
    IF ~CollectOk(row, index.fields) THEN EmptyKey
    ELSE IF r.isEdge
    THEN edgeIndexKey(r.part, index.indexId, r.vid, r.rank, r.dst,
                      collectIndexValues(row, index.fields))
    ELSE vertexIndexKey(r.part, index.indexId, r.vid, collectIndexValues(row, index.fields))

\* Whether the index targets the executor's tag id / edge type.
IndexMatches(r, index) == r.type_ = index.schemaId

\* indexes_: the node is built with the indexes of its kind of schema.
Indexes(c, r) == IF r.isEdge THEN c.edgeIndexes ELSE c.tagIndexes

\* ------------------------------------------------------- execute, lock step
\* A faulty variant: the guard reports the key installed although it is held.
TryLock_always(table, k) == TRUE

\* MemoryLockGuard: the key is installed unless it is already held.
TryLock(table, k) == k \notin table

\* A faulty variant: the executor goes on although the key is held by another.
LockStep_proceeds(n, locked) == [n EXCEPT !.pc = "locked", !.lg = locked]

\* if (!lg) return E_STORAGE_QUERY_CONCURRENT_MODIFY;
LockStep(n, locked) ==
    IF locked THEN [n EXCEPT !.pc = "locked", !.lg = TRUE]
    ELSE [n EXCEPT !.pc = "returning", !.lg = FALSE, !.ret = ConcurrentModify]

\* A faulty variant: the key is released on the successful path only.
ReleaseLock_leaksOnError(table, n) ==
    IF n.lg /\ n.ret = SUCCEEDED THEN table \ {LockKey(n.req)} ELSE table

\* A faulty variant: the guard's key stays in the table after execute has returned.
ReleaseLock_never(table, n) == table

\* ~MemoryLockGuard at the return of execute: the guard's key leaves the table
\* if the guard holds it.
ReleaseLock(table, n) == IF n.lg THEN table \ {LockKey(n.req)} ELSE table

\* ------------------------------------------------- execute, after the read
\* FilterNode below the update node: a stored row is checked against the
\* filter in a context of the row's columns and the implicit columns.
OldCtx(r, row) == Merge(row.vals, Implicit(r))
FilterStat(r, row) ==
    IF ~IsRow(row) \/ r.filter = NoFilter THEN "NORMAL"
    ELSE CASE EvalFilter(r.filter, OldCtx(r, row)) = "illegal" -> "ILLEGAL_DATA"
           [] EvalFilter(r.filter, OldCtx(r, row)) = "false" -> "FILTER_OUT"
           [] OTHER -> "NORMAL"

\* A faulty variant: a filtered-out row is updated all the same.
StatCode_passesFiltered(stat) == IF stat = "ILLEGAL_DATA" THEN InvalidData ELSE SUCCEEDED

\* resultStat_ ILLEGAL_DATA / FILTER_OUT end the update with their code.
StatCode(stat) ==
    CASE stat = "ILLEGAL_DATA" -> InvalidData
      [] stat = "FILTER_OUT" -> FilteredOut
      [] OTHER -> SUCCEEDED

\* if (!reader_ && insertable_) insert; else if (reader_) update; else not found
RowBranch(hasReader, insertable) ==
    IF ~hasReader /\ insertable THEN "insert"
    ELSE IF hasReader THEN "update"
    ELSE "notfound"

\* A faulty variant: the closure returns none without recording the code in
\* exeResult_.
NoBatch_keepsExe(c, n, code) ==
    IF UsesTxn(c, n.req)
    THEN [n EXCEPT !.pc = "tmWait", !.hasBatch = FALSE]
    ELSE [n EXCEPT !.pc = "returning", !.ret = n.exeResult]

\* A faulty variant: the early return leaves ret at its initial SUCCEEDED.
NoBatch_keepsRet(c, n, code) ==
    IF UsesTxn(c, n.req)
    THEN [n EXCEPT !.pc = "tmWait", !.exeResult = code, !.hasBatch = FALSE]
    ELSE [n EXCEPT !.pc = "returning", !.exeResult = code]

\* The executor's way out without a batch: the tag node and the direct edge
\* path return the code; under the transaction manager the closure leaves it
\* in exeResult_ and returns none.
NoBatch(c, n, code) ==
    IF UsesTxn(c, n.req)
    THEN [n EXCEPT !.pc = "tmWait", !.exeResult = code, !.hasBatch = FALSE]
    ELSE [n EXCEPT !.pc = "returning", !.exeResult = code, !.ret = code]

\* step 3 of updateAndWriteBack: the primary row is the batch's last put.
FinishBatch(c, n) ==
    [n EXCEPT !.batch = Append(n.batch, BatchPut(n.key, n.nVal)),
              !.hasBatch = TRUE,
              !.pc = IF UsesTxn(c, n.req) THEN "tmWait" ELSE "batched"]

\* A faulty variant: every index of the node is handled, whatever it targets.
MatchingFrom_all(c, r, i) == i..Len(Indexes(c, r))

\* for (auto& index : indexes_) if (type == index->schema_id): the next index
\* at or after position i that targets the executor's type, if any.
MatchingFrom(c, r, i) ==
    {j \in i..Len(Indexes(c, r)) : IndexMatches(r, Indexes(c, r)[j])}
Min(S) == CHOOSE x \in S : \A y \in S : x <= y
\* A faulty variant: the old index entry is handled whether or not there was
\* an old row.
ToIndex_alwaysOld(c, n, i) ==
    IF MatchingFrom(c, n.req, i) = {} THEN FinishBatch(c, n)
    ELSE [n EXCEPT !.pc = "index", !.i = Min(MatchingFrom(c, n.req, i)), !.phase = "old"]
ToIndex(c, n, i) ==
    IF MatchingFrom(c, n.req, i) = {} THEN FinishBatch(c, n)
    ELSE [n EXCEPT !.pc = "index", !.i = Min(MatchingFrom(c, n.req, i)),
                   !.phase = IF IsRow(n.val) THEN "old" ELSE "new"]

\* updateAndWriteBack up to the encoded row: none on a decode or encode
\* failure (execute makes it E_STORAGE_QUERY_INVALID_DATA).
updateAndEncode(c, n) ==
    LET r == n.req
        sch == LatestSchema(c, r)
        u == ApplyUpdates(r.updatedProps, n.props, n.ctx)
    IN IF ~u.ok THEN NoBatch(c, [n EXCEPT !.props = u.props, !.ctx = u.ctx], InvalidData)
       ELSE IF ~EncodeOk(sch, u.props)
       THEN NoBatch(c, [n EXCEPT !.props = u.props, !.ctx = u.ctx], InvalidData)
       ELSE ToIndex(c, [n EXCEPT !.props = u.props, !.ctx = u.ctx,
                                 !.nVal = Encode(sch, LatestVer(c, r), u.props)], 1)

\* insertTagProps / insertEdgeProps
insertProps(c, n) ==
    LET r == n.req
        m == [n EXCEPT !.insert = TRUE]
    IN IF ~HasLatestSchema(c, r) THEN NoBatch(c, m, SchemaNotFound(r.isEdge))
       ELSE LET p == checkPropsAndGetDefaultValue(LatestSchema(c, r), r.updatedProps, r.isEdge)
            IN IF p.code # SUCCEEDED THEN NoBatch(c, m, p.code)
               ELSE updateAndEncode(c, [m EXCEPT !.props = p.props,
                                                 !.ctx = Merge(Implicit(r), p.props),
                                                 !.key = RowKey(r)])

\* collTagProp / collEdgeProp
collectProps(c, n) ==
    LET r == n.req
        m == [n EXCEPT !.key = RowKey(r)]
    IN IF ~HasLatestSchema(c, r) THEN NoBatch(c, m, SchemaNotFound(r.isEdge))
       ELSE LET p == collProps(LatestSchema(c, r), n.reader, r.isEdge)
            IN IF p.code # SUCCEEDED THEN NoBatch(c, m, p.code)
               ELSE updateAndEncode(c, [m EXCEPT !.props = p.props,
                                                 !.ctx = Merge(Implicit(r), p.props),
                                                 !.val = n.reader])

\* execute from the read of the row to the encoded row (the closure op of the
\* edge node): rc is the code of the read, row the stored row or NoRow.
afterRead(c, n, rc, row) ==
    LET r == n.req
        stat == FilterStat(r, row)
        m == [n EXCEPT !.didRead = TRUE, !.resultStat = stat,
                       !.ctx = IF IsRow(row) THEN OldCtx(r, row) ELSE <<>>]
    IN IF rc # SUCCEEDED THEN NoBatch(c, [n EXCEPT !.didRead = TRUE], rc)
       ELSE IF r.isEdge /\ r.etype # r.type_ THEN NoBatch(c, m, KeyNotFound)
       ELSE IF StatCode(stat) # SUCCEEDED THEN NoBatch(c, m, StatCode(stat))
       ELSE CASE RowBranch(IsRow(row), r.insertable) = "insert" ->
                    insertProps(c, [m EXCEPT !.ctx = <<>>])
              [] RowBranch(IsRow(row), r.insertable) = "update" ->
                    collectProps(c, [m EXCEPT !.ctx = <<>>, !.reader = row])
              [] OTHER -> NoBatch(c, [m EXCEPT !.ctx = <<>>], KeyNotFound)

\* ------------------------------------------------- updateAndWriteBack, 2
\* The outcome of one index step: whether the executor goes on, and the
\* operations it adds to the batch.
IdxRes(ok, ops) == [ok |-> ok, ops |-> ops]

\* A faulty variant: the old index entry is not removed.
OldIndexOps_kept(part, oi, state, ts) == IdxRes(TRUE, <<>>)

\* A faulty variant: the old index entry is logged for deletion in every
\* state but Locked, never removed directly.
OldIndexOps_logged(part, oi, state, ts) ==
    IF oi = EmptyKey THEN IdxRes(TRUE, <<>>)
    ELSE IF checkIndexLocked(state) THEN IdxRes(FALSE, <<>>)
    ELSE IdxRes(TRUE, <<BatchPut(deleteOperationKey(part, ts), oi)>>)

\* step 1, delete old version index if exists: by the index state a
\* delete-operation log record, a refusal, or a remove.
OldIndexOps(part, oi, state, ts) ==
    IF oi = EmptyKey THEN IdxRes(TRUE, <<>>)
    ELSE IF checkRebuilding(state) THEN IdxRes(TRUE, <<BatchPut(deleteOperationKey(part, ts), oi)>>)
    ELSE IF checkIndexLocked(state) THEN IdxRes(FALSE, <<>>)
    ELSE IdxRes(TRUE, <<BatchRemove(oi)>>)

\* A faulty variant: the new index entry is put directly during a rebuild.
NewIndexOps_direct(part, ni, niv, state) ==
    IF ni = EmptyKey THEN IdxRes(TRUE, <<>>)
    ELSE IF checkIndexLocked(state) THEN IdxRes(FALSE, <<>>)
    ELSE IdxRes(TRUE, <<BatchPut(ni, niv)>>)

\* A faulty variant: the new index entry is left out of the batch.
NewIndexOps_leftOut(part, ni, niv, state) == IdxRes(TRUE, <<>>)

\* step 2, insert new index: by the index state a modify-operation log
\* record, a refusal, or a put.
NewIndexOps(part, ni, niv, state) ==
    IF ni = EmptyKey THEN IdxRes(TRUE, <<>>)
    ELSE IF checkRebuilding(state) THEN IdxRes(TRUE, <<BatchPut(modifyOperationKey(part, ni), niv)>>)
    ELSE IF checkIndexLocked(state) THEN IdxRes(FALSE, <<>>)
    ELSE IdxRes(TRUE, <<BatchPut(ni, niv)>>)

\* -------------------------------------------------------------- UpdateResNode
\* UpdateResNode::execute after the update node has returned ret: for
\* SUCCEEDED and FilteredOut a row of _inserted and the yielded props.
Yield(sym, prop) == [sym |-> sym, prop |-> prop]
\* folly::stringPrintf("%s.%s", exp->sym(), exp->prop())
ColName(sym, prop) == <<sym, ".", prop>>
YieldNames(r) == [j \in 1..Len(r.yields) |-> ColName(r.yields[j].sym, r.yields[j].prop)]
YieldVals(r, ctx) == [j \in 1..Len(r.yields) |-> Lookup(ctx, r.yields[j].prop)]
\* A faulty variant: _inserted is always false.
ResExecute_neverInserted(ds, n) ==
    IF n.ret # SUCCEEDED /\ n.ret # FilteredOut THEN ds
    ELSE [colNames |-> ds.colNames \o <<<<"_inserted">>>> \o YieldNames(n.req),
          rows |-> Append(ds.rows, <<FALSE>> \o YieldVals(n.req, n.ctx))]

\* A faulty variant: a run that ended with FilteredOut writes no row.
ResExecute_succeededOnly(ds, n) ==
    IF n.ret # SUCCEEDED THEN ds
    ELSE [colNames |-> ds.colNames \o <<<<"_inserted">>>> \o YieldNames(n.req),
          rows |-> Append(ds.rows, <<n.insert>> \o YieldVals(n.req, n.ctx))]

ResExecute(ds, n) ==
    IF n.ret # SUCCEEDED /\ n.ret # FilteredOut THEN ds
    ELSE [colNames |-> ds.colNames \o <<<<"_inserted">>>> \o YieldNames(n.req),
          rows |-> Append(ds.rows, <<n.insert>> \o YieldVals(n.req, n.ctx))]

\* ------------------------------------------------------ IndexCountWrapper
\* IndexCountWrapper wrapper(env_): the constructor raises the counter.
WrapperEnter(count) == count + 1

\* A faulty variant: an executor that lost the lock leaves the counter raised.
WrapperExit_skipsConflict(count, n) == IF n.lg THEN count - 1 ELSE count

\* The wrapper is destroyed when execute returns, on every path.
WrapperExit(count, n) == count - 1

\* ---------------------------------------------------------------- actions
\* execute is entered: the index-build counter is raised and the row's lock
\* key is installed, or the executor leaves with ConcurrentModify.
Begin(e) ==
    /\ node[e].pc = "idle"
    /\ runs < MaxRuns
    /\ \E r \in cfg.menu :
         LET table == IF r.isEdge THEN edgesML ELSE verticesML
             locked == TryLock(table, LockKey(r))
         IN /\ node' = [node EXCEPT ![e] =
                          LockStep([IdleNode EXCEPT
                                      !.req = r,
                                      !.retry = /\ lastConflict[e] = r
                                                /\ \A o \in Executors : node[o].pc = "idle"],
                                   locked)]
            /\ verticesML' = IF ~r.isEdge /\ locked THEN verticesML \cup {LockKey(r)}
                             ELSE verticesML
            /\ edgesML' = IF r.isEdge /\ locked THEN edgesML \cup {LockKey(r)} ELSE edgesML
    /\ indexCount' = WrapperEnter(indexCount)
    /\ runs' = runs + 1
    /\ result' = [result EXCEPT ![e] = EmptyDataSet]
    /\ UNCHANGED <<meta, eng, proc, cfg, store, indexState, oracleChanges, clock, tally, lastConflict>>

\* RelNode::execute reads the row; the executor then works on its own members
\* up to the encoded row.
ReadRow(e) ==
    /\ node[e].pc = "locked"
    /\ \E rc \in ReadCodes :
         LET k == RowKey(node[e].req)
             row == IF rc = SUCCEEDED /\ k \in DOMAIN store THEN store[k] ELSE NoRow
         IN node' = [node EXCEPT ![e] = afterRead(cfg, node[e], rc, row)]
    /\ UNCHANGED <<meta, eng, proc, cfg, store, verticesML, edgesML, indexState, oracleChanges,
                   indexCount, result, runs, clock, tally, lastConflict>>

\* The old index entry of the index at position i, under the index state read now.
IndexOld(e) ==
    LET n == node[e]
        index == Indexes(cfg, n.req)[n.i]
        o == OldIndexOps(n.req.part, indexKey(n.req, n.reader, index), indexState, clock)
    IN /\ n.pc = "index" /\ n.phase = "old"
       /\ node' = [node EXCEPT ![e] =
                     IF o.ok THEN [n EXCEPT !.batch = n.batch \o o.ops, !.phase = "new"]
                     ELSE NoBatch(cfg, n, InvalidData)]
       /\ clock' = IF o.ok /\ o.ops # <<>> /\ o.ops[1].key.kind = "opDel" THEN clock + 1 ELSE clock
       /\ UNCHANGED <<meta, eng, proc, cfg, store, verticesML, edgesML, indexState, oracleChanges,
                      indexCount, result, runs, tally, lastConflict>>

\* The new index entry of the index at position i, under the index state read now.
IndexNew(e) ==
    LET n == node[e]
        index == Indexes(cfg, n.req)[n.i]
        o == NewIndexOps(n.req.part, indexKey(n.req, n.nVal, index),
                         indexVal(LatestSchema(cfg, n.req), n.nVal), indexState)
    IN /\ n.pc = "index" /\ n.phase = "new"
       /\ node' = [node EXCEPT ![e] =
                     IF o.ok THEN ToIndex(cfg, [n EXCEPT !.batch = n.batch \o o.ops], n.i + 1)
                     ELSE NoBatch(cfg, n, InvalidData)]
       /\ UNCHANGED <<meta, eng, proc, cfg, store, verticesML, edgesML, indexState, oracleChanges,
                      indexCount, result, runs, clock, tally, lastConflict>>

\* kvstore_->asyncAppendBatch(space, part, batch, callback); baton.wait()
AppendBatch(e) ==
    /\ node[e].pc = "batched"
    /\ node' = [node EXCEPT ![e].pc = "waiting", ![e].appends = @ + 1]
    /\ UNCHANGED <<meta, eng, proc, cfg, store, verticesML, edgesML, indexState, oracleChanges,
                   indexCount, result, runs, clock, tally, lastConflict>>

\* What the store is after the KV layer has answered code for a batch.
Commit(st, batch, code) == IF code = SUCCEEDED THEN ApplyBatch(st, batch) ELSE st

\* A faulty variant: the callback drops the code: ret keeps its initial SUCCEEDED.
Callback_dropsCode(n, code) == [n EXCEPT !.pc = "returning", !.ret = SUCCEEDED]

\* A faulty variant: the callback reports a redirected append as done.
Callback_okOnRedirect(n, code) ==
    [n EXCEPT !.pc = "returning", !.ret = IF code = LeaderChanged THEN SUCCEEDED ELSE code]

\* A faulty variant: the callback reports a timeout as E_UNKNOWN.
Callback_masksTimeout(n, code) ==
    [n EXCEPT !.pc = "returning", !.ret = IF code = Timeout THEN Unknown ELSE code]

\* A faulty variant: the callback stores the code and never posts the baton.
Callback_noPost(n, code) == [n EXCEPT !.ret = code]

\* callback = [&ret, &baton] (ErrorCode code) { ret = code; baton.post(); }
Callback(n, code) == [n EXCEPT !.pc = "returning", !.ret = code]

\* The KV layer's reply: the batch is applied as a whole or not at all, and
\* the callback is run with the code.
KvReply(e) ==
    /\ node[e].pc = "waiting"
    /\ \E code \in KvCodes :
         /\ store' = Commit(store, node[e].batch, code)
         /\ node' = [node EXCEPT ![e] = [Callback(node[e], code) EXCEPT !.reply = code]]
    /\ UNCHANGED <<meta, eng, proc, cfg, verticesML, edgesML, indexState, oracleChanges,
                   indexCount, result, runs, clock, tally, lastConflict>>

\* Codes of txnMan_->updateEdgeAtomic: with a batch from the closure it
\* commits it or fails; without one it fails; E_UNKNOWN is what execute makes
\* of an invalid future.
TmCodes(hasBatch) ==
    IF hasBatch THEN {SUCCEEDED, LeaderChanged, Unknown} ELSE {AtomicOpFailed, Unknown}

\* The transaction manager's future completes.
TmReply(e) ==
    /\ node[e].pc = "tmWait"
    /\ \E code \in TmCodes(node[e].hasBatch) :
         /\ store' = IF node[e].hasBatch THEN Commit(store, node[e].batch, code) ELSE store
         /\ node' = [node EXCEPT ![e].pc = "returning", ![e].ret = code]
    /\ UNCHANGED <<meta, eng, proc, cfg, verticesML, edgesML, indexState, oracleChanges,
                   indexCount, result, runs, clock, tally, lastConflict>>

\* What a returned run leaves in the history.
HistEntry(n) == [req |-> n.req, ret |-> n.ret]

\* execute returns: the lock guard and the counter wrapper are destroyed, and
\* UpdateResNode::execute finishes with the code.
Return(e) ==
    /\ node[e].pc = "returning"
    /\ verticesML' = IF node[e].req.isEdge THEN verticesML ELSE ReleaseLock(verticesML, node[e])
    /\ edgesML' = IF node[e].req.isEdge THEN ReleaseLock(edgesML, node[e]) ELSE edgesML
    /\ indexCount' = WrapperExit(indexCount, node[e])
    /\ result' = [result EXCEPT ![e] = ResExecute(result[e], node[e])]
    /\ tally' = tally (+) SetToBag({HistEntry(node[e])})
    /\ lastConflict' = [lastConflict EXCEPT ![e] =
                          IF node[e].ret = ConcurrentModify /\ ~node[e].lg
                          THEN node[e].req ELSE NoReq]
    /\ node' = [node EXCEPT ![e] = IdleNode]
    /\ UNCHANGED <<meta, eng, proc, cfg, store, indexState, oracleChanges, runs, clock>>

\* The index state of the partition changes (a rebuild starts or ends).
OracleChange ==
    /\ oracleChanges < MaxOracleChanges
    /\ \E s \in IndexStates \ {indexState} : indexState' = s
    /\ oracleChanges' = oracleChanges + 1
    /\ UNCHANGED <<meta, eng, proc, cfg, store, verticesML, edgesML, indexCount, node, result, runs,
                   clock, tally, lastConflict>>

Next ==
    \/ \E e \in Executors :
         \/ Begin(e)
         \/ ReadRow(e)
         \/ IndexOld(e)
         \/ IndexNew(e)
         \/ AppendBatch(e)
         \/ KvReply(e)
         \/ TmReply(e)
         \/ Return(e)
    \/ OracleChange

\* -------------------------------------------------------------- processor
\* BaseProcessor<RESP> and the processors built on it. A request names its
\* partitions; a lookup walks the list synchronously, a write issues one
\* asynchronous put per partition and is finished by the callbacks.
\* Number of partitions of the space.
NumParts == 2
\* Longest partition list of a lookup request.
MaxParts == 2

PartIds == 1..NumParts

SpaceNotFound == "E_SPACE_NOT_FOUND"
PartNotFound == "E_PART_NOT_FOUND"
IndexNotFound == "E_INDEX_NOT_FOUND"

\* HostAddr("", 0), the default of pushResultCode's leader argument.
NoAddr == [host |-> "", port |-> 0]
HostAddr(h, p) == [host |-> h, port |-> p]

\* kvstore_->partLeader(space, part): a leader (HostAddr("", 0) while none is
\* known) or an error.
LeaderIs(a) == [ok |-> TRUE, leader |-> a, error |-> SUCCEEDED]
LeaderError(c) == [ok |-> FALSE, leader |-> NoAddr, error |-> c]
PartLeaderOutcomes ==
    {LeaderIs(HostAddr("storage2", 9779)), LeaderIs(NoAddr), LeaderError(PartNotFound)}

\* cpp2::PartitionResult; leaderSet is the field's isset flag.
PartitionResult(code, partId, leader) ==
    [code |-> code, part_id |-> partId, leaderSet |-> leader # NoAddr, leader |-> leader]

pushResultCode(codes, code, partId, leader) ==
    IF code # SUCCEEDED THEN Append(codes, PartitionResult(code, partId, leader))
    ELSE codes

\* A faulty variant: the leader found is not passed on.
handleLeaderChanged_noLeader(codes, partLeader, partId) ==
    LET addrRet == partLeader[partId]
    IN IF addrRet.ok THEN pushResultCode(codes, LeaderChanged, partId, NoAddr)
       ELSE pushResultCode(codes, addrRet.error, partId, NoAddr)

handleLeaderChanged(codes, partLeader, partId) ==
    LET addrRet == partLeader[partId]
    IN IF addrRet.ok THEN pushResultCode(codes, LeaderChanged, partId, addrRet.leader)
       ELSE pushResultCode(codes, addrRet.error, partId, NoAddr)

handleErrorCode(codes, partLeader, code, partId) ==
    IF code # SUCCEEDED
    THEN IF code = LeaderChanged THEN handleLeaderChanged(codes, partLeader, partId)
         ELSE pushResultCode(codes, code, partId, NoAddr)
    ELSE codes

\* One asynchronous call of a write: in flight, replied (the callback waits
\* for lock_), counted (the locked section is done), done.
Call(pc, code, finished) == [pc |-> pc, code |-> code, finished |-> finished]

\* A processor that has no request.
IdleProc ==
    [pc |-> "idle", kind |-> "", parts |-> <<>>, partLeader |-> <<>>, codes |-> <<>>,
     callingNum |-> 0, finished |-> 0, i |-> 0, failedParts |-> {}, calls |-> <<>>]

RECURSIVE SortedSeq(_)
SortedSeq(S) ==
    IF S = {} THEN <<>>
    ELSE LET m == CHOOSE x \in S : \A y \in S : x <= y IN <<m>> \o SortedSeq(S \ {m})

\* LookupIndexRequest.parts is a list; a write keeps its data in a map keyed
\* by partition.
LookupParts == UNION {[1..n -> PartIds] : n \in 1..MaxParts}
WriteParts == {SortedSeq(S) : S \in SUBSET PartIds \ {{}}}

\* The data a write puts in a partition: two rows.
PutData(partId) ==
    <<BatchPut(vertexKey(partId, 1, 1), Row(1, [n \in {"count"} |-> partId])),
      BatchPut(vertexKey(partId, 2, 1), Row(1, [n \in {"count"} |-> partId]))>>

\* The processor is handed a request.
Receive ==
    /\ proc.pc = "idle"
    /\ \E kind \in {"lookup", "write"} :
       \E parts \in IF kind = "lookup" THEN LookupParts ELSE WriteParts :
       \E pl \in [PartIds -> PartLeaderOutcomes] :
         proc' = [IdleProc EXCEPT !.pc = "start", !.kind = kind, !.parts = parts,
                                  !.partLeader = pl]
    /\ UNCHANGED <<meta, eng, cfg, store, verticesML, edgesML, indexState, oracleChanges,
                   indexCount, node, result, runs, clock, tally, lastConflict>>

\* for (auto& p : req.get_parts()) pushResultCode(code, p);
RECURSIVE PushAll(_, _, _, _)
PushAll(codes, code, parts, i) ==
    IF i > Len(parts) THEN codes
    ELSE PushAll(pushResultCode(codes, code, parts[i], NoAddr), code, parts, i + 1)

\* LookupProcessor::process up to its loop: requestCheck and buildPlan, each
\* of which may end the request.
LookupCheck ==
    /\ proc.pc = "start" /\ proc.kind = "lookup"
    /\ \E retCode \in {SUCCEEDED, SpaceNotFound}, planOk \in BOOLEAN :
         proc' = IF retCode # SUCCEEDED
                 THEN [proc EXCEPT !.codes = PushAll(@, retCode, proc.parts, 1),
                                   !.finished = @ + 1, !.pc = "done"]
                 ELSE IF ~planOk
                 THEN [proc EXCEPT !.codes = PushAll(@, IndexNotFound, proc.parts, 1),
                                   !.finished = @ + 1, !.pc = "done"]
                 ELSE [proc EXCEPT !.pc = "go", !.i = 1, !.failedParts = {}]
    /\ UNCHANGED <<meta, eng, cfg, store, verticesML, edgesML, indexState, oracleChanges,
                   indexCount, node, result, runs, clock, tally, lastConflict>>

\* What plan.go(partId) may return.
GoCodes == {SUCCEEDED, LeaderChanged, IOError}

\* One round of the loop over req.get_parts().
LookupGo ==
    /\ proc.pc = "go" /\ proc.i <= Len(proc.parts)
    /\ \E ret \in GoCodes :
         LET partId == proc.parts[proc.i]
             first == ret # SUCCEEDED /\ partId \notin proc.failedParts
         IN proc' = [proc EXCEPT
                       !.failedParts = IF first THEN @ \cup {partId} ELSE @,
                       !.codes = IF first
                                 THEN handleErrorCode(@, proc.partLeader, ret, partId)
                                 ELSE @,
                       !.i = @ + 1]
    /\ UNCHANGED <<meta, eng, cfg, store, verticesML, edgesML, indexState, oracleChanges,
                   indexCount, node, result, runs, clock, tally, lastConflict>>

\* onProcessFinished(); onFinished();
LookupFinish ==
    /\ proc.pc = "go" /\ proc.i > Len(proc.parts)
    /\ proc' = [proc EXCEPT !.finished = @ + 1, !.pc = "done"]
    /\ UNCHANGED <<meta, eng, cfg, store, verticesML, edgesML, indexState, oracleChanges,
                   indexCount, node, result, runs, clock, tally, lastConflict>>

\* A write's process: callingNum_ is the number of partitions, and doPut is
\* called for each.
WriteProcess ==
    /\ proc.pc = "start" /\ proc.kind = "write"
    /\ proc' = [proc EXCEPT !.callingNum = Len(proc.parts),
                            !.calls = [j \in 1..Len(proc.parts) |->
                                         Call("flying", SUCCEEDED, FALSE)],
                            !.pc = "async"]
    /\ UNCHANGED <<meta, eng, cfg, store, verticesML, edgesML, indexState, oracleChanges,
                   indexCount, node, result, runs, clock, tally, lastConflict>>

\* The KV layer answers asyncMultiPut: the data is applied or not, and the
\* callback is started with the code.
PutReply(j) ==
    /\ proc.pc = "async" /\ j \in DOMAIN proc.calls /\ proc.calls[j].pc = "flying"
    /\ \E code \in KvCodes :
         /\ store' = Commit(store, PutData(proc.parts[j]), code)
         /\ proc' = [proc EXCEPT !.calls[j] = Call("replied", code, FALSE)]
    /\ UNCHANGED <<meta, eng, cfg, verticesML, edgesML, indexState, oracleChanges,
                   indexCount, node, result, runs, clock, tally, lastConflict>>

\* A faulty variant: every callback takes itself for the last one.
handleAsync_allFinish(p, j) ==
    [p EXCEPT !.codes = handleErrorCode(@, p.partLeader, p.calls[j].code, p.parts[j]),
              !.callingNum = @ - 1,
              !.calls[j] = Call("counted", p.calls[j].code, TRUE)]

\* handleAsync under lock_: the code is recorded, callingNum_ is lowered, and
\* the callback that sees 0 is the one to finish.
handleAsync(p, j) ==
    [p EXCEPT !.codes = handleErrorCode(@, p.partLeader, p.calls[j].code, p.parts[j]),
              !.callingNum = @ - 1,
              !.calls[j] = Call("counted", p.calls[j].code, p.callingNum - 1 = 0)]

HandleAsync(j) ==
    /\ proc.pc = "async" /\ j \in DOMAIN proc.calls /\ proc.calls[j].pc = "replied"
    /\ proc' = handleAsync(proc, j)
    /\ UNCHANGED <<meta, eng, cfg, store, verticesML, edgesML, indexState, oracleChanges,
                   indexCount, node, result, runs, clock, tally, lastConflict>>

\* handleAsync after the lock: if (finished) onFinished();
OnFinished(j) ==
    /\ proc.pc = "async" /\ j \in DOMAIN proc.calls /\ proc.calls[j].pc = "counted"
    /\ proc' = [proc EXCEPT !.calls[j].pc = "done",
                            !.finished = IF proc.calls[j].finished THEN @ + 1 ELSE @]
    /\ UNCHANGED <<meta, eng, cfg, store, verticesML, edgesML, indexState, oracleChanges,
                   indexCount, node, result, runs, clock, tally, lastConflict>>

NextProc ==
    \/ Receive
    \/ LookupCheck
    \/ LookupGo
    \/ LookupFinish
    \/ WriteProcess
    \/ \E j \in 1..NumParts :
         \/ PutReply(j)
         \/ HandleAsync(j)
         \/ OnFinished(j)

\* -------------------------------------------------------------- KV engine
\* KVEngine as its RocksDB implementation keeps it: a log of versions, each
\* write taking the next sequence number; a read sees, for a key, the last
\* version at or below the sequence number it reads at.
\* Number of writes an engine takes.
MaxWrites == 3

EngKeys == {<<"j", "0">>, <<"k", "0">>, <<"k", "1">>}
EngVals == {"", "old", "new"}
EngPrefixes == {<<"j">>, <<"k">>}
\* The keys in the engine's (bytewise) order.
KeyOrder == <<<<"j", "0">>, <<"k", "0">>, <<"k", "1">>>>

EngKeyNotFound == "E_KEY_NOT_FOUND"

Version(type, key, val) == [type |-> type, key |-> key, val |-> val]

\* The sequence number of the version of k a read at seq sees; 0 if none.
Visible(log, seq, k) ==
    LET S == {j \in 1..seq : log[j].key = k}
    IN IF S = {} THEN 0 ELSE CHOOSE j \in S : \A i \in S : i <= j

GetRes(code, value) == [code |-> code, value |-> value]

\* A faulty variant: an empty value is taken for a missing key.
ReadAt_emptyIsMissing(log, seq, k) ==
    LET j == Visible(log, seq, k)
    IN IF j = 0 \/ log[j].type = "delete" \/ log[j].val = ""
       THEN GetRes(EngKeyNotFound, "")
       ELSE GetRes(SUCCEEDED, log[j].val)

\* get(key, &value) at a sequence number
ReadAt(log, seq, k) ==
    LET j == Visible(log, seq, k)
    IN IF j = 0 \/ log[j].type = "delete" THEN GetRes(EngKeyNotFound, "")
       ELSE GetRes(SUCCEEDED, log[j].val)

HasPrefix(k, p) == Len(k) >= Len(p) /\ SubSeq(k, 1, Len(p)) = p

\* A faulty variant: the scan reads the latest versions whatever the snapshot.
PrefixAt_latest(log, seq, p) ==
    LET Found(k) == HasPrefix(k, p) /\ ReadAt(log, Len(log), k).code = SUCCEEDED
        ks == SelectSeq(KeyOrder, Found)
    IN [j \in 1..Len(ks) |-> <<ks[j], ReadAt(log, Len(log), ks[j]).value>>]

\* RocksPrefixIter over an iterator opened at a sequence number: the keys
\* with the prefix, in order, each with the value visible there.
PrefixAt(log, seq, p) ==
    LET Found(k) == HasPrefix(k, p) /\ ReadAt(log, seq, k).code = SUCCEEDED
        ks == SelectSeq(KeyOrder, Found)
    IN [j \in 1..Len(ks) |-> <<ks[j], ReadAt(log, seq, ks[j]).value>>]

\* (history) What was last done to a key.
NoOp == [op |-> "none", val |-> ""]
DidPut(v) == [op |-> "put", val |-> v]
DidRemove == [op |-> "remove", val |-> ""]

Snapshot(taken, seq) == [taken |-> taken, seq |-> seq]
NoOut == [kind |-> "none", key |-> <<>>, snap |-> FALSE, res |-> <<>>]

\* A new engine on an empty directory.
NewEngine ==
    [log |-> <<>>, snapshot |-> Snapshot(FALSE, 0), out |-> NoOut,
     last |-> [k \in EngKeys |-> NoOp], view |-> [k \in EngKeys |-> NoOp]]

\* The engine is on its own: nothing else moves.
EngineOnly ==
    UNCHANGED <<meta, proc, cfg, store, verticesML, edgesML, indexState, oracleChanges,
                indexCount, node, result, runs, clock, tally, lastConflict>>

\* put(key, value)
EnginePut(k, v) ==
    /\ EngineOnly
    /\ Len(eng.log) < MaxWrites
    /\ eng' = [eng EXCEPT !.log = Append(@, Version("value", k, v)),
                          !.last[k] = DidPut(v)]

\* remove(key)
EngineRemove(k) ==
    /\ EngineOnly
    /\ Len(eng.log) < MaxWrites
    /\ eng' = [eng EXCEPT !.log = Append(@, Version("delete", k, "")),
                          !.last[k] = DidRemove]

\* get(key, &value)
EngineGet(k) ==
    /\ EngineOnly
    /\ eng' = [eng EXCEPT !.out = [kind |-> "get", key |-> k, snap |-> FALSE,
                                   res |-> ReadAt(eng.log, Len(eng.log), k)]]

\* db_->GetSnapshot()
GetSnapshot ==
    /\ EngineOnly
    /\ ~eng.snapshot.taken
    /\ eng' = [eng EXCEPT !.snapshot = Snapshot(TRUE, Len(eng.log)), !.view = eng.last]

\* db_->ReleaseSnapshot(snapshot)
ReleaseSnapshot ==
    /\ EngineOnly
    /\ eng.snapshot.taken
    /\ eng' = [eng EXCEPT !.snapshot = Snapshot(FALSE, 0),
                          !.view = [k \in EngKeys |-> NoOp],
                          !.out = IF @.snap THEN NoOut ELSE @]

\* A prefix scan, through the snapshot (options.snapshot = snapshot) or not.
EnginePrefix(p, through) ==
    /\ EngineOnly
    /\ through => eng.snapshot.taken
    /\ eng' = [eng EXCEPT !.out =
                 [kind |-> "prefix", key |-> p, snap |-> through,
                  res |-> PrefixAt(eng.log,
                                   IF through THEN eng.snapshot.seq ELSE Len(eng.log), p)]]

NextEngine ==
    \/ \E k \in EngKeys, v \in EngVals : EnginePut(k, v)
    \/ \E k \in EngKeys : EngineRemove(k)
    \/ \E k \in EngKeys : EngineGet(k)
    \/ GetSnapshot
    \/ ReleaseSnapshot
    \/ \E p \in EngPrefixes, through \in BOOLEAN : EnginePrefix(p, through)

\* ------------------------------------------------------------------- init
Config(tagSchemas, edgeSchemas, tagIndexes, edgeIndexes, toss, menu) ==
    [tagSchemas |-> tagSchemas, edgeSchemas |-> edgeSchemas, tagIndexes |-> tagIndexes,
     edgeIndexes |-> edgeIndexes, toss |-> toss, menu |-> menu, store0 |-> <<>>]

\* The index entries a consistent store holds for a row: one per index that
\* targets its schema and whose key can be computed.
IndexEntries(c, r, row) ==
    {<<indexKey(r, row, Indexes(c, r)[j]), indexVal(LatestSchema(c, r), row)>> :
        j \in {j \in 1..Len(Indexes(c, r)) :
                 /\ IndexMatches(r, Indexes(c, r)[j])
                 /\ indexKey(r, row, Indexes(c, r)[j]) # EmptyKey}}

\* A store holding the given rows (request, row) and their index entries.
StoreOf(c, rows) ==
    LET kv == {<<RowKey(p[1]), p[2]>> : p \in rows}
              \cup UNION {IndexEntries(c, p[1], p[2]) : p \in rows}
    IN [k \in {p[1] : p \in kv} |-> (CHOOSE p \in kv : p[1] = k)[2]]

\* ------------------------------------------------------------ meta service
\* AlterEdgeProcessor and DropEdgeProcessor over the schema catalog of one
\* space, kept in the meta service's KV store. Both hold the edge lock for
\* the whole of process, so a request is one step.
\* Requests served in the meta scenario.
MaxReqs == 3

MetaEdgeNotFound == "E_META_SCHEMA_EDGE_NOT_FOUND"
DropForbiddenIndex == "E_META_SCHEMA_DROP_FORBIDDEN_WHEN_HAS_INDEX"
DropForbiddenFt == "E_META_SCHEMA_DROP_FORBIDDEN_WHEN_HAS_FULLTEXT_INDEX"
ChangeForbiddenTtl == "E_META_SCHEMA_CHANGE_FORBIDDEN_WHEN_HAS_TTL"
FtIndexNotFound == "E_META_FULLTEXT_INDEX_NOT_FOUND"
InvalidDefault == "E_META_SCHEMA_INVALID_DEFAULT_VALUE"
MetaConflict == "E_META_SCHEMA_CONFLICT"
MetaExisted == "E_META_SCHEMA_EXISTED"
MetaNotFound == "E_META_SCHEMA_NOT_FOUND"
MetaUnsupported == "E_META_SCHEMA_UNSUPPORTED"

\* MetaServiceUtils::indexEdgeKey(space, name): the key of the name-to-type entry
indexEdgeKey(name) == [kind |-> "edgeName", name |-> name, type |-> 0, ver |-> 0]
\* MetaServiceUtils::schemaEdgeKey(space, type, version)
schemaEdgeKey(type, ver) == [kind |-> "schema", name |-> "", type |-> type, ver |-> ver]
\* MetaServiceUtils::parseEdgeVersion(key)
parseEdgeVersion(k) == k.ver

Column(name, okDefault) == [name |-> name, okDefault |-> okDefault]
SchemaProp(ttlCol, ttlDuration) == [ttlCol |-> ttlCol, ttlDuration |-> ttlDuration]
EdgeSchema(columns, prop) == [columns |-> columns, prop |-> prop]
\* An optional field of a request that is not set: the TTL column; an unset
\* duration is Null.
Unset == "(unset)"
AlterItem(op, cols) == [op |-> op, cols |-> cols]
AlterReq(name, items, ttlCol, ttlDuration) ==
    [name |-> name, items |-> items, prop |-> SchemaProp(ttlCol, ttlDuration)]
DropReq(name, ifExists) == [name |-> name, ifExists |-> ifExists]

\* doPrefix(schemaEdgePrefix(space, type)): the schema keys of the type. The key
\* holds the version counted down from the largest integer, so the iterator
\* yields the latest version first.
SchemaKeys(kv, type) == {k \in DOMAIN kv : k.kind = "schema" /\ k.type = type}
FirstKey(kv, type) ==
    CHOOSE k \in SchemaKeys(kv, type) : \A o \in SchemaKeys(kv, type) : o.ver <= k.ver

\* getIndexes(space, type): the secondary indexes on the type.
getIndexes(m, type) == {i \in m.indexes : i.schemaId = type}
\* getFTIndex(space, type): the full-text index on the type, if any.
getFTIndex(m, type) == {i \in m.ftIndexes : i.schemaId = type}

ColNames(cols) == {cols[j].name : j \in 1..Len(cols)}
ItemNames(items, ops) ==
    UNION {ColNames(items[j].cols) : j \in {j \in 1..Len(items) : items[j].op \in ops}}
\* indexCheck / ftIndexCheck: a column an index is built on may be neither
\* changed nor dropped.
indexCheck(indexes, items) ==
    IF \E i \in indexes : i.fields \cap ItemNames(items, {"CHANGE", "DROP"}) # {}
    THEN MetaConflict ELSE SUCCEEDED

\* MetaServiceUtils::alterColumnDefs(columns, prop, col, op): one column is
\* added, replaced or dropped in the local copy of the schema.
AltRes(code, columns, prop) == [code |-> code, columns |-> columns, prop |-> prop]
alterColumnDefs(columns, prop, col, op) ==
    LET at == {j \in 1..Len(columns) : columns[j].name = col.name}
    IN IF op = "ADD"
       THEN IF at # {} THEN AltRes(MetaExisted, columns, prop)
            ELSE AltRes(SUCCEEDED, Append(columns, col), prop)
       ELSE IF at = {} THEN AltRes(MetaNotFound, columns, prop)
       ELSE IF op = "CHANGE"
       THEN AltRes(SUCCEEDED, [j \in 1..Len(columns) |-> IF j \in at THEN col ELSE columns[j]],
                   prop)
       ELSE AltRes(SUCCEEDED, SelectSeq(columns, LAMBDA c : c.name # col.name),
                   IF prop.ttlCol = col.name THEN SchemaProp("", 0) ELSE prop)

\* for (edgeItem : edgeItems) for (col : cols) alterColumnDefs(...): stops at
\* the first column that is refused.
RECURSIVE AlterCols(_, _, _, _)
AlterCols(columns, prop, cols, op) ==
    IF cols = <<>> THEN AltRes(SUCCEEDED, columns, prop)
    ELSE LET r == alterColumnDefs(columns, prop, Head(cols), op)
         IN IF r.code # SUCCEEDED THEN r ELSE AlterCols(r.columns, r.prop, Tail(cols), op)
RECURSIVE AlterItems(_, _, _)
AlterItems(columns, prop, items) ==
    IF items = <<>> THEN AltRes(SUCCEEDED, columns, prop)
    ELSE LET r == AlterCols(columns, prop, Head(items).cols, Head(items).op)
         IN IF r.code # SUCCEEDED THEN r ELSE AlterItems(r.columns, r.prop, Tail(items))

\* SchemaUtil::checkType(columns): every default value fits its column.
checkType(columns) == \A j \in 1..Len(columns) : columns[j].okDefault

\* MetaServiceUtils::alterSchemaProp(columns, prop, alterSchemaProp, existIndex):
\* with an index the TTL may not be touched; otherwise the fields that are set
\* are taken over, an empty column disables the TTL, the column must exist, and
\* a duration without a column is refused.
alterSchemaProp(columns, prop, alter, existIndex) ==
    LET withDuration ==
            IF alter.ttlDuration = Null THEN prop
            ELSE [prop EXCEPT !.ttlDuration = alter.ttlDuration]
    IN IF existIndex /\ (alter.ttlDuration # Null \/ alter.ttlCol # Unset)
       THEN AltRes(MetaUnsupported, columns, prop)
       ELSE IF alter.ttlCol = "" THEN AltRes(SUCCEEDED, columns, SchemaProp("", 0))
       ELSE IF alter.ttlCol # Unset /\ alter.ttlCol \notin ColNames(columns)
       THEN AltRes(MetaNotFound, columns, prop)
       ELSE LET p == IF alter.ttlCol = Unset THEN withDuration
                     ELSE [withDuration EXCEPT !.ttlCol = alter.ttlCol]
            IN IF p.ttlDuration # 0 /\ p.ttlCol = ""
               THEN AltRes(MetaUnsupported, columns, prop)
               ELSE AltRes(SUCCEEDED, columns, p)

\* handleErrorCode(code); onFinished(); return;
Finish(m, code) == [m EXCEPT !.code = code, !.finished = @ + 1]

\* doSyncPutAndUpdate(data): the entries are put in one write; the write's code
\* is the response's, and onFinished is called.
doSyncPutAndUpdate(m, key, val, code) ==
    Finish(IF code = SUCCEEDED THEN [m EXCEPT !.kv = MapPut(m.kv, key, val)] ELSE m, code)

\* doSyncMultiRemoveAndUpdate(keys): the keys are removed in one write.
doSyncMultiRemoveAndUpdate(m, keys, code) ==
    Finish(IF code = SUCCEEDED
           THEN [m EXCEPT !.kv = [k \in DOMAIN m.kv \ keys |-> m.kv[k]]] ELSE m, code)

\* A faulty variant: the altered schema is stored under the latest version.
NextVersion_same(k) == parseEdgeVersion(k)

\* The version the altered schema is stored under.
NextVersion(k) == parseEdgeVersion(k) + 1

\* A faulty variant: the request's TTL is not compared with the indexes.
TtlConflict_never(existIndex, alter) == FALSE

\* if (existIndex) ... if (!col.empty() && duration > 0): index and ttl conflict
TtlConflict(existIndex, alter) ==
    LET duration == IF alter.ttlDuration = Null THEN 0 ELSE alter.ttlDuration
        col == IF alter.ttlCol = Unset THEN "" ELSE alter.ttlCol
    IN existIndex /\ col # "" /\ duration > 0

\* The steps of the KV store a request can fail at, and the code it then gets.
NoFault == "none"
KvFault == LeaderChanged

\* AlterEdgeProcessor::process
AlterEdgeProcess(m, req, fault) ==
    LET nameKey == indexEdgeKey(req.name)
    IN IF fault = "getEdgeType" THEN Finish(m, KvFault)
       ELSE IF nameKey \notin DOMAIN m.kv THEN Finish(m, MetaEdgeNotFound)
       ELSE
       LET edgeType == m.kv[nameKey]
       IN IF fault = "doPrefix" THEN Finish(m, KvFault)
          ELSE IF SchemaKeys(m.kv, edgeType) = {} THEN Finish(m, KeyNotFound)
          ELSE
          LET first == FirstKey(m.kv, edgeType)
              version == NextVersion(first)
              schema == m.kv[first]
              indexes == getIndexes(m, edgeType)
              existIndex == indexes # {}
              fti == getFTIndex(m, edgeType)
              alt == AlterItems(schema.columns, schema.prop, req.items)
              fin == alterSchemaProp(alt.columns, alt.prop, req.prop, existIndex)
          IN IF fault = "getIndexes" THEN Finish(m, KvFault)
             ELSE IF existIndex /\ indexCheck(indexes, req.items) # SUCCEEDED
             THEN Finish(m, indexCheck(indexes, req.items))
             ELSE IF TtlConflict(existIndex, req.prop) THEN Finish(m, ChangeForbiddenTtl)
             ELSE IF fault = "getFTIndex" THEN Finish(m, KvFault)
             ELSE IF fti # {} /\ indexCheck(fti, req.items) # SUCCEEDED
             THEN Finish(m, indexCheck(fti, req.items))
             ELSE IF alt.code # SUCCEEDED THEN Finish(m, alt.code)
             ELSE IF ~checkType(alt.columns) THEN Finish(m, InvalidDefault)
             ELSE IF fin.code # SUCCEEDED THEN Finish(m, fin.code)
             ELSE doSyncPutAndUpdate(m, schemaEdgeKey(edgeType, version),
                                     EdgeSchema(fin.columns, fin.prop),
                                     IF fault = "write" THEN KvFault ELSE SUCCEEDED)

\* A faulty variant: a missing edge is an error whatever the request says.
NotFoundCode_strict(ifExists) == MetaEdgeNotFound

\* if (req.get_if_exists()) SUCCEEDED else E_META_SCHEMA_EDGE_NOT_FOUND
NotFoundCode(ifExists) == IF ifExists THEN SUCCEEDED ELSE MetaEdgeNotFound

\* A faulty variant: only the first key under the prefix is collected.
getEdgeKeys_first(kv, type) == {FirstKey(kv, type)}

\* DropEdgeProcessor::getEdgeKeys: every key under the type's schema prefix.
getEdgeKeys(kv, type) == SchemaKeys(kv, type)

\* DropEdgeProcessor::process
DropEdgeProcess(m, req, fault) ==
    LET nameKey == indexEdgeKey(req.name)
    IN IF fault = "getEdgeType" THEN Finish(m, KvFault)
       ELSE IF nameKey \notin DOMAIN m.kv THEN Finish(m, NotFoundCode(req.ifExists))
       ELSE
       LET edgeType == m.kv[nameKey]
       IN IF fault = "getIndexes" THEN Finish(m, KvFault)
          ELSE IF getIndexes(m, edgeType) # {} THEN Finish(m, DropForbiddenIndex)
          ELSE IF fault = "getFTIndex" THEN Finish(m, KvFault)
          ELSE IF getFTIndex(m, edgeType) # {} THEN Finish(m, DropForbiddenFt)
          ELSE IF fault = "doPrefix" THEN Finish(m, KvFault)
          ELSE doSyncMultiRemoveAndUpdate(m, getEdgeKeys(m.kv, edgeType) \cup {nameKey},
                                          IF fault = "write" THEN KvFault ELSE SUCCEEDED)

\* A new request reaches the processor: nothing of it is answered yet.
Arrive(m, kind, req, fault) ==
    [m EXCEPT !.code = "", !.finished = 0, !.served = @ + 1,
              !.last = [kind |-> kind, req |-> req, fault |-> fault]]

\* No meta service in the scenario.
NoRequest == [kind |-> "", req |-> <<>>, fault |-> ""]
NoCatalog ==
    [kv |-> <<>>, indexes |-> {}, ftIndexes |-> {}, code |-> "", finished |-> 0, served |-> 0,
     last |-> NoRequest]

\* The state before any executor runs, with the index state the oracle
\* reports at that time.
InitIn(c, st, ist) ==
    /\ cfg = [c EXCEPT !.store0 = st]
    /\ store = st
    /\ verticesML = {}
    /\ edgesML = {}
    /\ indexState = ist
    /\ oracleChanges = 0
    /\ indexCount = 0
    /\ node = [e \in Executors |-> IdleNode]
    /\ result = [e \in Executors |-> EmptyDataSet]
    /\ runs = 0
    /\ clock = 0
    /\ tally = EmptyBag
    /\ lastConflict = [e \in Executors |-> NoReq]
    /\ proc = IdleProc
    /\ eng = NewEngine
    /\ meta = NoCatalog

InitWith(c, st) == InitIn(c, st, "Normal")

\* ---- the counter scenario: concurrent increments of one vertex and one edge
CounterSchema == Schema(<<Field("count", TRUE, 0, FALSE)>>, "", 0)
\* set count = count + 1 on vertex vid of tag 1
IncVertex(vid, insertable) ==
    Request(FALSE, 1, 1, vid, 0, 0, 0, 1, <<Update("count", Plus("count", 1))>>,
            NoFilter, insertable, <<Yield("counter", "count")>>)
\* set count = count + 1 on the edge 1 -> 2 of type 1, rank 0
IncEdge(insertable) ==
    Request(TRUE, 1, 1, 1, 1, 0, 2, 1, <<Update("count", Plus("count", 1))>>,
            NoFilter, insertable, <<Yield("counter", "count")>>)
CounterCfg(toss) ==
    Config(1 :> <<CounterSchema>>, 1 :> <<CounterSchema>>,
           <<IndexItem(1, 1, <<IndexField("count", FALSE)>>)>>,
           <<IndexItem(2, 1, <<IndexField("count", FALSE)>>)>>,
           toss, {IncVertex(1, TRUE), IncEdge(FALSE)})
CounterRow(v) == Row(1, [n \in {"count"} |-> v])

Init ==
    \E toss \in BOOLEAN, hasVertex \in BOOLEAN :
        InitWith(CounterCfg(toss),
                 StoreOf(CounterCfg(toss),
                         {<<IncEdge(FALSE), CounterRow(0)>>}
                         \cup IF hasVertex THEN {<<IncVertex(1, TRUE), CounterRow(1)>>} ELSE {}))

Spec == Init /\ [][Next]_vars

\* ---- the person scenario: one request at a time against a tag and an edge
\* type of two schema versions; the stored rows were written under the first.
PersonV1 ==
    Schema(<<Field("a", TRUE, 5, FALSE), Field("x", FALSE, 0, TRUE),
             Field("y", FALSE, 0, FALSE)>>, "", 0)
PersonV2 == Schema(PersonV1.fields \o <<Field("z", TRUE, 9, FALSE)>>, "", 0)
PersonRow(x) == Row(1, [n \in {"a", "x", "y"} |-> CASE n = "a" -> 5 [] n = "x" -> x [] OTHER -> 0])

\* update vertex vid of tag 1
OnVertex(vid, ups, filter, insertable, yields) ==
    Request(FALSE, 1, 1, vid, 0, 0, 0, 1, ups, filter, insertable, yields)
\* update the edge 1 -> dst of type etype, rank 0, by a plan for edge type 1
OnEdge(dst, etype, ups, filter, insertable, yields) ==
    Request(TRUE, 1, 1, 1, etype, 0, dst, 1, ups, filter, insertable, yields)

SetXY == <<Update("x", Prop("a")), Update("y", Plus("x", 1))>>
YieldXY == <<Yield("person", "x"), Yield("person", "y")>>
\* set x = a, y = x + 1 on the stored vertex 1 and the stored edge 1 -> 3
OrderVertex == OnVertex(1, SetXY, NoFilter, FALSE, YieldXY)
OrderEdge == OnEdge(3, 1, SetXY, NoFilter, FALSE, YieldXY)
\* upserts of the missing vertex 2
InsertY == OnVertex(2, <<Update("y", Const(3))>>, NoFilter, TRUE, YieldXY)
InsertXY == OnVertex(2, SetXY, NoFilter, TRUE, YieldXY)
InsertX == OnVertex(2, <<Update("x", Const(7))>>, NoFilter, TRUE, YieldXY)
\* updates of the missing vertex 2 and the missing edge 1 -> 2
MissingVertex == OnVertex(2, <<Update("y", Const(3))>>, NoFilter, FALSE, YieldXY)
MissingEdge == OnEdge(2, 1, <<Update("y", Const(3))>>, NoFilter, FALSE, YieldXY)
\* set a = 99 when a > 100, yield a, on the stored vertex 1 and edge 1 -> 3
FilteredVertex ==
    OnVertex(1, <<Update("a", Const(99))>>, Gt("a", 100), FALSE, <<Yield("person", "a")>>)
FilteredEdge ==
    OnEdge(3, 1, <<Update("a", Const(99))>>, Gt("a", 100), FALSE, <<Yield("person", "a")>>)

\* a plan for edge type 1 handed the key of a reverse edge (type -1): the
\* stored 1 -> 3, and an upsert of the missing 1 -> 2
ReverseStored == OnEdge(3, -1, SetXY, NoFilter, FALSE, YieldXY)
ReverseUpsert == OnEdge(2, -1, SetXY, NoFilter, TRUE, YieldXY)

\* requests that cannot produce a row: an update expression that does not
\* decode, a value of the wrong type for its column, a filter over a column
\* that may hold null, an upsert under a tag the catalog does not know, and
\* an upsert assigning a column the schema does not have
DecodeFail == OnVertex(1, <<Update("x", BadExpr)>>, NoFilter, FALSE, YieldXY)
EncodeFail == OnEdge(3, 1, <<Update("y", Const(BadType))>>, NoFilter, FALSE, YieldXY)
IllegalFilter ==
    OnVertex(1, <<Update("a", Const(99))>>, Gt("x", 0), FALSE, <<Yield("person", "a")>>)
UnknownTag ==
    Request(FALSE, 1, 1, 2, 0, 0, 0, 2, <<Update("y", Const(3))>>, NoFilter, TRUE, YieldXY)
UnknownProp == OnVertex(2, <<Update("w", Const(1))>>, NoFilter, TRUE, YieldXY)

\* set a = 7 on the stored vertex 1 and the stored edge 1 -> 3: the indexed
\* columns x and y are not touched
TouchVertex == OnVertex(1, <<Update("a", Const(7))>>, NoFilter, FALSE, YieldXY)
TouchEdge == OnEdge(3, 1, <<Update("a", Const(7))>>, NoFilter, FALSE, YieldXY)

Menus ==
    {{OrderVertex, MissingEdge}, {InsertY, MissingVertex, OrderEdge},
     {InsertXY, InsertX, MissingEdge}, {FilteredVertex, FilteredEdge},
     {ReverseStored, ReverseUpsert}, {DecodeFail, EncodeFail, IllegalFilter},
     {UnknownTag, UnknownProp}, {TouchVertex, TouchEdge}}

PersonCfg(toss, menu) ==
    Config(1 :> <<PersonV1, PersonV2>>, 1 :> <<PersonV1, PersonV2>>,
           <<IndexItem(1, 1, <<IndexField("x", TRUE)>>)>>,
           <<IndexItem(2, 1, <<IndexField("y", FALSE)>>)>>,
           toss, menu)

OldXs == {1, Null}

InitUpd ==
    \E toss \in BOOLEAN, menu \in Menus, x \in OldXs :
        InitWith(PersonCfg(toss, menu),
                 MapPut(StoreOf(PersonCfg(toss, menu),
                                {<<OrderVertex, PersonRow(x)>>, <<OrderEdge, PersonRow(x)>>}),
                        RowKey(ReverseStored), PersonRow(x)))

SpecUpd == InitUpd /\ [][Next]_vars

\* ---- the upsert scenario: one upsert of the missing vertex 2 or the missing
\* edge 1 -> 2 with any set clause of up to MaxClause updates, each assigning
\* x or y a constant or a column plus one.
\* Longest set clause of an upsert.
MaxClause == 2
InsUpdates ==
    {Update(n, v) : n \in {"x", "y"},
                    v \in {Const(3)} \cup {Plus(c, 1) : c \in {"a", "x", "y"}}}
InsClauses == UNION {[1..k -> InsUpdates] : k \in 1..MaxClause}
Upsert(isEdge, ups) ==
    IF isEdge THEN OnEdge(2, 1, ups, NoFilter, TRUE, YieldXY)
    ELSE OnVertex(2, ups, NoFilter, TRUE, YieldXY)

InitIns ==
    \E kind \in {<<FALSE, FALSE>>, <<TRUE, FALSE>>, <<TRUE, TRUE>>}, ups \in InsClauses :
        InitWith(PersonCfg(kind[2], {Upsert(kind[1], ups)}),
                 StoreOf(PersonCfg(kind[2], {Upsert(kind[1], ups)}),
                         {<<OrderVertex, PersonRow(1)>>, <<OrderEdge, PersonRow(1)>>}))

SpecIns == InitIns /\ [][Next]_vars

\* ---- the lock scenario: two counter upserts whose row identities differ in
\* exactly one component (the partition, the tag or the vertex; the partition,
\* the source, the edge type, the rank or the destination), run concurrently.
CountUp == <<Update("count", Plus("count", 1))>>
VertexOf(part, tag, vid) ==
    Request(FALSE, 1, part, vid, 0, 0, 0, tag, CountUp, NoFilter, TRUE,
            <<Yield("counter", "count")>>)
EdgeOf(part, src, etype, rank, dst) ==
    Request(TRUE, 1, part, src, etype, rank, dst, 1, CountUp, NoFilter, TRUE,
            <<Yield("counter", "count")>>)
LockMenus ==
    {{VertexOf(1, 1, 1), v} : v \in {VertexOf(2, 1, 1), VertexOf(1, 2, 1), VertexOf(1, 1, 2)}}
    \cup {{EdgeOf(1, 1, 1, 0, 2), w} :
             w \in {EdgeOf(2, 1, 1, 0, 2), EdgeOf(1, 3, 1, 0, 2), EdgeOf(1, 1, -1, 0, 2),
                    EdgeOf(1, 1, 1, 1, 2), EdgeOf(1, 1, 1, 0, 3)}}
LockCfg(toss, menu) ==
    Config(1 :> <<CounterSchema>>, 1 :> <<CounterSchema>>,
           <<IndexItem(1, 1, <<IndexField("count", FALSE)>>)>>,
           <<IndexItem(2, 1, <<IndexField("count", FALSE)>>)>>,
           toss, menu)

InitLock ==
    \E toss \in BOOLEAN, menu \in LockMenus : InitWith(LockCfg(toss, menu), <<>>)

SpecLock == InitLock /\ [][Next]_vars

\* ---- the counter scenario under fair scheduling: a thread that has entered
\* execute keeps running its own steps, and the KV layer and the transaction
\* manager deliver every reply they owe.
\* The steps execute takes on its own thread after the read.
OwnStep(e) == IndexOld(e) \/ IndexNew(e) \/ AppendBatch(e) \/ Return(e)
\* The reply executor e is suspended on: baton.wait() / f.wait().
ReplyStep(e) == KvReply(e) \/ TmReply(e)
\* Weak fairness of ReadRow(e), which is enabled exactly while the executor
\* is at "locked" and always leaves it: the synchronous read returns.
ReadReturns(e) == []<>(node[e].pc # "locked")
Fairness ==
    \A e \in Executors : ReadReturns(e) /\ WF_vars(OwnStep(e)) /\ WF_vars(ReplyStep(e))
\* The counter scenario with the edge stored and the vertex still to be inserted.
InitLive ==
    \E toss \in BOOLEAN :
        InitWith(CounterCfg(toss), StoreOf(CounterCfg(toss), {<<IncEdge(FALSE), CounterRow(0)>>}))
SpecLive == InitLive /\ [][Next]_vars /\ Fairness

\* ---- the index scenario: the person rows under an index whose column must
\* not be null, met in any index state.
\* set y = y + 1 on the stored vertex 1: the indexed column x is not touched
BumpVertex ==
    OnVertex(1, <<Update("y", Plus("y", 1))>>, NoFilter, FALSE, YieldXY)

IdxMenus ==
    {{OrderVertex, OrderEdge}, {BumpVertex, MissingEdge}, {InsertY, OrderEdge}}

IdxCfg(toss, menu) ==
    Config(1 :> <<PersonV1, PersonV2>>, 1 :> <<PersonV1, PersonV2>>,
           <<IndexItem(1, 1, <<IndexField("x", FALSE)>>)>>,
           <<IndexItem(2, 1, <<IndexField("y", FALSE)>>)>>,
           toss, menu)

InitIdx ==
    \E toss \in BOOLEAN, menu \in IdxMenus, x \in OldXs, ist \in IndexStates :
        InitIn(IdxCfg(toss, menu),
               StoreOf(IdxCfg(toss, menu),
                       {<<OrderVertex, PersonRow(x)>>, <<OrderEdge, PersonRow(x)>>}),
               ist)

SpecIdx == InitIdx /\ [][Next]_vars

\* ---- the processor scenario: one request, a lookup or a write, over an
\* empty store
InitProc == InitIn(CounterCfg(FALSE), <<>>, "Normal")
SpecProc == InitProc /\ [][NextProc]_vars

\* ---- the engine scenario: a new engine, written, read and snapshotted
InitEngine == InitIn(CounterCfg(FALSE), <<>>, "Normal")
SpecEngine == InitEngine /\ [][NextEngine]_vars

\* ---- the index-target scenario: the person rows under index lists that
\* hold indexes of the executor's schema (id 1), of another schema (id 2),
\* both or none.
IndexLayouts ==
    {<<<<>>, <<>>>>,
     <<<<IndexItem(3, 2, <<IndexField("x", FALSE)>>)>>,
       <<IndexItem(4, 2, <<IndexField("y", FALSE)>>)>>>>,
     <<<<IndexItem(3, 2, <<IndexField("x", FALSE)>>), IndexItem(1, 1, <<IndexField("x", FALSE)>>)>>,
       <<IndexItem(2, 1, <<IndexField("y", FALSE)>>), IndexItem(4, 2, <<IndexField("y", FALSE)>>)>>>>,
     <<<<IndexItem(1, 1, <<IndexField("x", FALSE)>>), IndexItem(5, 1, <<IndexField("y", FALSE)>>)>>,
       <<IndexItem(2, 1, <<IndexField("y", FALSE)>>)>>>>}
TargetCfg(toss, tis, eis) ==
    Config(1 :> <<PersonV1, PersonV2>>, 1 :> <<PersonV1, PersonV2>>, tis, eis, toss,
           {OrderVertex, OrderEdge})

InitTarget ==
    \E toss \in BOOLEAN, lay \in IndexLayouts, ist \in {"Normal", "Rebuilding"} :
        InitIn(TargetCfg(toss, lay[1], lay[2]),
               StoreOf(TargetCfg(toss, lay[1], lay[2]),
                       {<<OrderVertex, PersonRow(1)>>, <<OrderEdge, PersonRow(1)>>}),
               ist)
SpecTarget == InitTarget /\ [][Next]_vars

\* ---- the meta scenario: a catalog of two edge types, e1 with or without a
\* secondary index, a full-text index and a TTL, altered and dropped by up to
\* MaxReqs requests.
AlterFaults == {NoFault, "getEdgeType", "doPrefix", "getIndexes", "getFTIndex", "write"}
AlterItemLists ==
    {<<>>,
     <<AlterItem("ADD", <<Column("c", TRUE)>>)>>,
     <<AlterItem("ADD", <<Column("c", FALSE)>>)>>,
     <<AlterItem("ADD", <<Column("a", TRUE)>>)>>,
     <<AlterItem("CHANGE", <<Column("b", TRUE)>>)>>,
     <<AlterItem("DROP", <<Column("a", TRUE)>>)>>,
     <<AlterItem("ADD", <<Column("c", TRUE)>>), AlterItem("DROP", <<Column("z", TRUE)>>)>>}
AlterReqs ==
    {AlterReq("e1", items, Unset, Null) : items \in AlterItemLists}
    \cup {AlterReq("e1", <<>>, col, d) : col \in {Unset, "", "a", "z"}, d \in {Null, 0, 5}}
    \cup {AlterReq("e1", <<AlterItem("DROP", <<Column("a", TRUE)>>)>>, "a", 5),
          AlterReq("e1", <<AlterItem("CHANGE", <<Column("b", TRUE)>>)>>, "a", 5),
          AlterReq("e3", <<AlterItem("ADD", <<Column("c", TRUE)>>)>>, Unset, Null)}
DropReqs == {DropReq(name, ifExists) : name \in {"e1", "e2", "e3"}, ifExists \in BOOLEAN}

AlterEdge ==
    /\ meta.served < MaxReqs
    /\ \E req \in AlterReqs, fault \in AlterFaults :
          meta' = AlterEdgeProcess(Arrive(meta, "alter", req, fault), req, fault)
    /\ UNCHANGED <<eng, proc, cfg, store, verticesML, edgesML, indexState, oracleChanges,
                   indexCount, node, result, runs, clock, tally, lastConflict>>

DropEdge ==
    /\ meta.served < MaxReqs
    /\ \E req \in DropReqs, fault \in AlterFaults :
          meta' = DropEdgeProcess(Arrive(meta, "drop", req, fault), req, fault)
    /\ UNCHANGED <<eng, proc, cfg, store, verticesML, edgesML, indexState, oracleChanges,
                   indexCount, node, result, runs, clock, tally, lastConflict>>

NextMeta ==
    \/ AlterEdge
    \/ DropEdge

\* e1 (type 1) in two versions and e2 (type 2) in one; e3 does not exist.
BaseColumns == <<Column("a", TRUE), Column("b", TRUE)>>
Catalog(prop) ==
    (indexEdgeKey("e1") :> 1) @@ (indexEdgeKey("e2") :> 2)
    @@ (schemaEdgeKey(1, 0) :> EdgeSchema(<<Column("a", TRUE)>>, SchemaProp("", 0)))
    @@ (schemaEdgeKey(1, 1) :> EdgeSchema(BaseColumns, prop))
    @@ (schemaEdgeKey(2, 0) :> EdgeSchema(BaseColumns, SchemaProp("", 0)))
EdgeIndexOn(type, fields) == [schemaId |-> type, fields |-> fields]
\* What e1 starts with: a secondary index, a full-text index, a TTL.
Starts ==
    {[indexes |-> {}, ftIndexes |-> {}, prop |-> SchemaProp("", 0)],
     [indexes |-> {}, ftIndexes |-> {}, prop |-> SchemaProp("a", 5)],
     [indexes |-> {EdgeIndexOn(1, {"b"})}, ftIndexes |-> {}, prop |-> SchemaProp("", 0)],
     [indexes |-> {EdgeIndexOn(1, {"b"})}, ftIndexes |-> {}, prop |-> SchemaProp("a", 0)],
     [indexes |-> {}, ftIndexes |-> {EdgeIndexOn(1, {"b"})}, prop |-> SchemaProp("", 0)]}

InitMeta ==
    /\ \E st \in Starts :
          meta = [NoCatalog EXCEPT !.kv = Catalog(st.prop), !.indexes = st.indexes,
                                   !.ftIndexes = st.ftIndexes]
    /\ cfg = [CounterCfg(FALSE) EXCEPT !.store0 = <<>>]
    /\ store = <<>>
    /\ verticesML = {}
    /\ edgesML = {}
    /\ indexState = "Normal"
    /\ oracleChanges = 0
    /\ indexCount = 0
    /\ node = [e \in Executors |-> IdleNode]
    /\ result = [e \in Executors |-> EmptyDataSet]
    /\ runs = 0
    /\ clock = 0
    /\ tally = EmptyBag
    /\ lastConflict = [e \in Executors |-> NoReq]
    /\ proc = IdleProc
    /\ eng = NewEngine
SpecMeta == InitMeta /\ [][NextMeta]_vars

\* ---- the result-node scenario: the result node of each executor is run
\* several times against its data set; the update node under it ends each run
\* with a code, an insert flag and a context of yielded columns drawn here.
ResCodes == {SUCCEEDED, FilteredOut, KeyNotFound}
YieldProps(r) == {r.yields[j].prop : j \in 1..Len(r.yields)}
ResCtxs(r) == [YieldProps(r) -> {1, Null}]
ResMenus == {{OrderVertex, MissingEdge}, {FilteredVertex, FilteredEdge}}

\* RelNode::execute of the result node: the update node has run and left its
\* code, planContext_->insert_ and the expression context.
UpdateEnds(e) ==
    /\ node[e].pc = "idle"
    /\ runs < MaxRuns
    /\ \E r \in cfg.menu, code \in ResCodes, ins \in BOOLEAN :
         \E ctx \in ResCtxs(r) :
            node' = [node EXCEPT ![e] = [IdleNode EXCEPT !.pc = "returning", !.req = r,
                                                         !.ret = code, !.exeResult = code,
                                                         !.insert = ins, !.ctx = ctx]]
    /\ indexCount' = indexCount + 1
    /\ runs' = runs + 1
    /\ UNCHANGED <<meta, eng, proc, cfg, store, verticesML, edgesML, indexState, oracleChanges,
                   result, clock, tally, lastConflict>>

NextRes ==
    \E e \in Executors :
       \/ UpdateEnds(e)
       \/ Return(e)

InitRes == \E menu \in ResMenus : InitWith(PersonCfg(FALSE, menu), <<>>)
SpecRes == InitRes /\ [][NextRes]_vars

\* ============================================================ properties
AllIdle == \A e \in Executors : node[e].pc = "idle"

\* The runs on the row of request r that returned code.
Returned(r, code) ==
    LET qs == {q \in cfg.menu : q.isEdge = r.isEdge /\ RowKey(q) = RowKey(r)}
        S == {q \in qs : BagIn([req |-> q, ret |-> code], tally)}
        RECURSIVE Sum(_)
        Sum(T) == IF T = {} THEN 0
                  ELSE LET q == CHOOSE q \in T : TRUE
                       IN CopiesIn([req |-> q, ret |-> code], tally) + Sum(T \ {q})
    IN Sum(S)

\* The count column of the row of request r in store st (the schema default, 0,
\* if there is no row).
CountIn(st, r) == IF RowKey(r) \in DOMAIN st THEN st[RowKey(r)].vals["count"] ELSE 0

\* ---- C1: an executor whose row key is held by another in-flight executor
\* returns ConcurrentModify at once: it never leaves the lock step without the
\* guard other than to return that code, having read nothing and built or
\* appended no batch; and no two executors past the lock step share a row key.
C1_ConflictFailsFast ==
    /\ \A e \in Executors :
         (node[e].pc # "idle" /\ ~node[e].lg) =>
            /\ node[e].pc = "returning"
            /\ node[e].ret = ConcurrentModify
            /\ ~node[e].didRead
            /\ node[e].appends = 0
            /\ ~node[e].hasBatch /\ node[e].batch = <<>>
    /\ \A e1, e2 \in Executors :
         (e1 # e2 /\ node[e1].lg /\ node[e2].lg /\ node[e1].req.isEdge = node[e2].req.isEdge)
            => LockKey(node[e1].req) # LockKey(node[e2].req)

\* An executor is leaving with ConcurrentModify while another holds its key.
C1_Witness ==
    \E e1, e2 \in Executors :
        /\ e1 # e2
        /\ node[e1].pc = "returning" /\ ~node[e1].lg /\ node[e1].ret = ConcurrentModify
        /\ node[e2].lg /\ node[e2].req.isEdge = node[e1].req.isEdge
        /\ LockKey(node[e2].req) = LockKey(node[e1].req)

\* ---- C2: once execute has returned, the key its guard held is no longer in
\* the lock table, whatever the exit path: the tables hold exactly the keys
\* of the executors that are in flight with a guard, and nothing once all
\* have returned.
Held(isEdge) ==
    {LockKey(node[e].req) :
        e \in {x \in Executors : node[x].pc # "idle" /\ node[x].lg /\ node[x].req.isEdge = isEdge}}
C2_LockReleased ==
    /\ verticesML = Held(FALSE)
    /\ edgesML = Held(TRUE)
    /\ (AllIdle => verticesML = {} /\ edgesML = {})

\* Runs have returned by a timeout and by a changed leader, and all are back.
C2_Witness ==
    /\ AllIdle
    /\ \E r \in cfg.menu : BagIn([req |-> r, ret |-> Timeout], tally)
    /\ \E r \in cfg.menu : BagIn([req |-> r, ret |-> LeaderChanged], tally)
    /\ verticesML = {} /\ edgesML = {}

\* ---- C3: once all executors incrementing a vertex's count have returned, the
\* stored count is the initial count plus the number that returned SUCCEEDED.
C3_Serializable ==
    AllIdle =>
        \A r \in cfg.menu :
            ~r.isEdge => CountIn(store, r) = CountIn(cfg.store0, r) + Returned(r, SUCCEEDED)

\* Two increments of the vertex succeeded and one lost the lock to another.
C3_Witness ==
    /\ AllIdle
    /\ \E r \in cfg.menu :
         /\ ~r.isEdge
         /\ Returned(r, SUCCEEDED) = 2
         /\ Returned(r, ConcurrentModify) = 1

\* ---- C4: of the executors in flight on one counter row at most one holds the
\* lock and every other is leaving with ConcurrentModify; a retry of the loser begun
\* after every other executor has returned holds the lock, reads the count the
\* successful runs before it committed, ends (on a vertex) with SUCCEEDED
\* unless the read, the KV layer or a changed index state fails it, and when
\* it ends with SUCCEEDED the stored count is the initial count plus the
\* earlier successes plus one.
FaultCodes == {IOError, LeaderChanged, Timeout}
C4_RetrySucceeds ==
    /\ \A e1, e2 \in Executors :
         (/\ e1 # e2 /\ node[e1].pc # "idle" /\ node[e2].pc # "idle"
          /\ node[e1].req.isEdge = node[e2].req.isEdge
          /\ RowKey(node[e1].req) = RowKey(node[e2].req))
            => /\ ~(node[e1].lg /\ node[e2].lg)
               /\ ~node[e1].lg => node[e1].ret = ConcurrentModify
               /\ ~node[e2].lg => node[e2].ret = ConcurrentModify
    /\ \A e \in Executors :
         node[e].retry =>
            /\ node[e].lg
            /\ IsRow(node[e].reader) =>
                   node[e].reader.vals["count"]
                      = CountIn(cfg.store0, node[e].req) + Returned(node[e].req, SUCCEEDED)
            /\ (node[e].pc = "returning" /\ ~node[e].req.isEdge) =>
                   \/ node[e].ret = SUCCEEDED
                   \/ node[e].ret \in FaultCodes
                   \/ node[e].ret = InvalidData /\ oracleChanges > 0
            /\ (node[e].pc = "returning" /\ node[e].ret = SUCCEEDED) =>
                   CountIn(store, node[e].req)
                      = CountIn(cfg.store0, node[e].req) + Returned(node[e].req, SUCCEEDED) + 1

\* The winner and the loser have returned, and the loser's retry is leaving
\* with SUCCEEDED and the vertex's count two above the initial one.
C4_Witness ==
    \E e \in Executors :
        /\ node[e].retry /\ node[e].pc = "returning" /\ node[e].ret = SUCCEEDED
        /\ ~node[e].req.isEdge
        /\ Returned(node[e].req, SUCCEEDED) = 1
        /\ Returned(node[e].req, ConcurrentModify) = 1
        /\ CountIn(store, node[e].req) = CountIn(cfg.store0, node[e].req) + 2

\* ---- C5 (as in the specification): every change of the store is the batch
\* of an executor that has handed it over in one asyncAppendBatch call.
HasOp(batch, o) == \E j \in 1..Len(batch) : batch[j] = o
OldOpsOf(n, index) ==
    LET oi == indexKey(n.req, n.reader, index)
    IN IF ~IsRow(n.val) \/ oi = EmptyKey THEN {}
       ELSE {BatchRemove(oi)}
            \cup {BatchPut(deleteOperationKey(n.req.part, ts), oi) : ts \in 0..clock}
NewOpsOf(n, index) ==
    LET ni == indexKey(n.req, n.nVal, index)
        niv == indexVal(LatestSchema(cfg, n.req), n.nVal)
    IN IF ni = EmptyKey THEN {}
       ELSE {BatchPut(ni, niv), BatchPut(modifyOperationKey(n.req.part, ni), niv)}
MatchingIndexes(r) ==
    {Indexes(cfg, r)[j] : j \in {j \in 1..Len(Indexes(cfg, r)) : IndexMatches(r, Indexes(cfg, r)[j])}}
\* The batch of executor n holds the row put last, an operation for every old
\* and new index entry of the row, and nothing else.
BatchComplete(n) ==
    /\ n.hasBatch /\ Len(n.batch) > 0
    /\ n.batch[Len(n.batch)] = BatchPut(RowKey(n.req), n.nVal)
    /\ \A index \in MatchingIndexes(n.req) :
         /\ OldOpsOf(n, index) # {} => \E o \in OldOpsOf(n, index) : HasOp(n.batch, o)
         /\ NewOpsOf(n, index) # {} => \E o \in NewOpsOf(n, index) : HasOp(n.batch, o)
    /\ \A j \in 1..(Len(n.batch) - 1) :
         \E index \in MatchingIndexes(n.req) :
            n.batch[j] \in OldOpsOf(n, index) \cup NewOpsOf(n, index)
C5_OneAppendCall ==
    [][store' # store =>
         \E e \in Executors :
            /\ node[e].pc = "waiting" /\ node[e].appends = 1
            /\ BatchComplete(node[e])
            /\ store' = ApplyBatch(store, node[e].batch)]_vars

\* ---- C5: the store changes only by the whole batch of one executor, which
\* holds the row put, every index put/remove and every operation-log record
\* of the mutation and nothing else; the executor hands it over once, by one
\* asyncAppendBatch call or, on the edge path under the transaction manager,
\* as the result of the closure; a batch that was not accepted leaves the
\* store as it was.
C5_Atomic ==
    /\ [][store' # store =>
            \E e \in Executors :
               /\ \/ node[e].pc = "waiting" /\ node[e].appends = 1
                  \/ node[e].pc = "tmWait" /\ node[e].appends = 0 /\ UsesTxn(cfg, node[e].req)
               /\ BatchComplete(node[e])
               /\ node'[e].ret = SUCCEEDED
               /\ store' = ApplyBatch(store, node[e].batch)]_vars
    /\ [](\A e \in Executors :
            /\ node[e].appends <= 1
            /\ node[e].appends = 1 => BatchComplete(node[e]) /\ ~UsesTxn(cfg, node[e].req)
            /\ (node[e].pc = "returning" /\ node[e].ret = SUCCEEDED) =>
                   BatchComplete(node[e]) /\ ApplyBatch(store, node[e].batch) = store)

\* An executor has committed a batch of the old index entry's remove, the new
\* one's put and the row, and all of it is in the store.
C5_Witness ==
    \E e \in Executors :
        /\ node[e].pc = "returning" /\ node[e].ret = SUCCEEDED /\ node[e].appends = 1
        /\ Len(node[e].batch) = 3
        /\ node[e].batch[1].op = "remove" /\ node[e].batch[1].key \notin DOMAIN store
        /\ node[e].batch[2].key \in DOMAIN store
        /\ store[RowKey(node[e].req)] = node[e].nVal

\* ---- C6: while the index state has been Normal throughout, every stored row
\* has, for every index that targets its schema, exactly one entry in the
\* store, under the key computed from the row's current values and with the
\* row's TTL anchor as value; and every index entry in the store is such an
\* entry of a stored row (none is left from a superseded version).
IndexKeysOf(st) == {k \in DOMAIN st : k.kind = "index"}
RowReqs == {r \in cfg.menu : RowKey(r) \in DOMAIN store}
EntriesOf(r, index) ==
    {k \in IndexKeysOf(store) :
        /\ k.idx = index.indexId /\ k.part = r.part /\ k.src = r.vid
        /\ k.rank = r.rank /\ k.dst = r.dst}
C6_IndexConsistent ==
    oracleChanges = 0 =>
        /\ \A r \in RowReqs : \A index \in MatchingIndexes(r) :
              LET k == indexKey(r, store[RowKey(r)], index)
              IN /\ k # EmptyKey
                 /\ EntriesOf(r, index) = {k}
                 /\ store[k] = indexVal(LatestSchema(cfg, r), store[RowKey(r)])
        /\ \A k \in IndexKeysOf(store) :
              \E r \in RowReqs : \E index \in MatchingIndexes(r) :
                 k = indexKey(r, store[RowKey(r)], index)

\* Under the Normal state an update of a stored row and an insert of a new
\* one have both been committed.
C6_Witness ==
    /\ oracleChanges = 0 /\ AllIdle
    /\ \E r \in cfg.menu :
         /\ RowKey(r) \in DOMAIN cfg.store0
         /\ CountIn(store, r) = CountIn(cfg.store0, r) + 2
    /\ \E r \in cfg.menu :
         /\ RowKey(r) \notin DOMAIN cfg.store0
         /\ RowKey(r) \in DOMAIN store

\* ---- C7: the updates of a request take effect from left to right, each
\* expression evaluated over the values its predecessors assigned: the value
\* the encoded row holds for an updated column is its last update's
\* expression over, for each column read, the nearest earlier update of that
\* column or else the value before the request; set x = a, y = x + 1 with
\* a = 5 gives x = 5 and y = 6 whatever x was, and that row is what a
\* successful run leaves in the store.
Max(S) == CHOOSE x \in S : \A y \in S : x >= y
LastAssign(ups, col) == Max({j \in 1..Len(ups) : ups[j].name = col})
DefaultsOf(sch) ==
    [col \in FieldNames(sch) |->
        IF FieldOf(sch, col).hasDefault THEN FieldOf(sch, col).default ELSE Null]
\* The column values before the request: the stored row's, read under the
\* latest schema, or the defaults when the row is being inserted.
BaseOf(n) ==
    LET sch == LatestSchema(cfg, n.req)
    IN IF IsRow(n.val) THEN [col \in FieldNames(sch) |-> readValue(n.val, col, sch)]
       ELSE DefaultsOf(sch)
RECURSIVE RefVal(_, _, _)
RefVal(ups, i, base) ==
    LET earlier(p) == {j \in 1..(i - 1) : ups[j].name = p}
        env == [p \in DOMAIN base \cup {ups[j].name : j \in 1..(i - 1)} |->
                  IF earlier(p) = {} THEN base[p] ELSE RefVal(ups, Max(earlier(p)), base)]
    IN Eval(ups[i].value, env)
C7_UpdateOrder ==
    \A e \in Executors :
        LET n == node[e]
            ups == n.req.updatedProps
        IN IsRow(n.nVal) =>
             /\ \A j \in 1..Len(ups) :
                   j = LastAssign(ups, ups[j].name) =>
                      n.nVal.vals[ups[j].name] = RefVal(ups, j, BaseOf(n))
             /\ (ups = SetXY /\ BaseOf(n)["a"] = 5) =>
                   n.nVal.vals["x"] = 5 /\ n.nVal.vals["y"] = 6
             /\ (n.pc = "returning" /\ n.ret = SUCCEEDED) => store[RowKey(n.req)] = n.nVal

\* set x = a, y = x + 1 has been committed on the stored vertex whose x was
\* not 5: the row now holds x = 5 and y = 6.
C7_Witness ==
    \E e \in Executors :
        /\ node[e].pc = "returning" /\ node[e].ret = SUCCEEDED
        /\ node[e].req = OrderVertex
        /\ cfg.store0[RowKey(OrderVertex)].vals["x"] # 5
        /\ store[RowKey(OrderVertex)].vals["a"] = 5
        /\ store[RowKey(OrderVertex)].vals["x"] = 5
        /\ store[RowKey(OrderVertex)].vals["y"] = 6

\* ---- C8: an upsert that has inserted a missing row has stored it under the
\* latest schema version, with every column of that schema: a column named by
\* the updates holds its computed value, every other column its default, or
\* null if it has none and is nullable.
Inserted(n) ==
    /\ n.pc = "returning" /\ n.ret = SUCCEEDED
    /\ n.insert /\ n.req.insertable /\ ~IsRow(n.val)
C8_InsertDefaults ==
    \A e \in Executors :
        LET n == node[e]
            r == n.req
            ups == r.updatedProps
            sch == LatestSchema(cfg, r)
            named == {ups[j].name : j \in 1..Len(ups)}
        IN Inserted(n) =>
             /\ RowKey(r) \notin DOMAIN cfg.store0
             /\ RowKey(r) \in DOMAIN store
             /\ store[RowKey(r)].ver = LatestVer(cfg, r)
             /\ DOMAIN store[RowKey(r)].vals = FieldNames(sch)
             /\ \A col \in FieldNames(sch) :
                   IF col \in named
                   THEN store[RowKey(r)].vals[col]
                           = RefVal(ups, LastAssign(ups, col), DefaultsOf(sch))
                   ELSE IF FieldOf(sch, col).hasDefault
                   THEN store[RowKey(r)].vals[col] = FieldOf(sch, col).default
                   ELSE FieldOf(sch, col).nullable /\ store[RowKey(r)].vals[col] = Null

\* set y = 3 has inserted vertex 2: a and z hold their defaults, x is null.
C8_Witness ==
    \E e \in Executors :
        /\ Inserted(node[e]) /\ node[e].req = InsertY
        /\ store[RowKey(InsertY)] = Row(2, [c \in {"a", "x", "y", "z"} |->
                                              CASE c = "a" -> 5 [] c = "x" -> Null
                                                [] c = "y" -> 3 [] OTHER -> 9])

\* ---- C9: an executor that found no row for a request that is not insertable
\* is leaving with KeyNotFound, has built and appended no batch, has left the
\* insert flag false and the store without the row, and its return leaves the
\* store as it is and its lock key out of the lock table.
NotFoundRun(n) ==
    /\ n.pc = "returning" /\ n.lg /\ n.didRead /\ n.exeResult # IOError
    /\ n.resultStat = "NORMAL" /\ ~IsRow(n.reader) /\ ~n.req.insertable
    /\ ~(n.req.isEdge /\ n.req.etype # n.req.type_)
C9_KeyNotFound ==
    /\ [](\A e \in Executors :
            NotFoundRun(node[e]) =>
               /\ node[e].ret = KeyNotFound
               /\ node[e].appends = 0 /\ ~node[e].hasBatch /\ node[e].batch = <<>>
               /\ ~node[e].insert
               /\ RowKey(node[e].req) \notin DOMAIN store)
    /\ [][\A e \in Executors :
            (NotFoundRun(node[e]) /\ node'[e].pc = "idle") =>
               /\ store' = store
               /\ LockKey(node[e].req) \notin
                     (IF node[e].req.isEdge THEN edgesML' ELSE verticesML')]_vars

\* Under the transaction manager the executor of the missing, not insertable
\* edge is leaving with the manager's code while exeResult_ holds KeyNotFound.
C9_Witness ==
    \E e \in Executors :
        /\ NotFoundRun(node[e]) /\ node[e].req = MissingEdge
        /\ UsesTxn(cfg, node[e].req)
        /\ node[e].exeResult = KeyNotFound
        /\ node[e].ret = AtomicOpFailed

\* ---- C10: a tag executor whose stored row failed the filter is leaving with
\* FilteredOut, has built and appended no batch, and the row is in the store
\* as it was read; its return leaves the store as it is and the response with
\* one row, _inserted = false followed by the yielded columns' values in the
\* stored (old) row.
FilteredRun(n) ==
    n.pc = "returning" /\ n.lg /\ n.resultStat = "FILTER_OUT" /\ ~n.req.isEdge
RebuildingThroughout == oracleChanges = 0 /\ indexState = "Rebuilding"
C11_RebuildLogsOnly ==
    RebuildingThroughout =>
        /\ IndexKeysOf(store) = IndexKeysOf(cfg.store0)
        /\ \A e \in Executors :
              LET n == node[e] IN
              (n.hasBatch /\ IsRow(n.val)) =>
                 /\ n.batch[Len(n.batch)] = BatchPut(RowKey(n.req), n.nVal)
                 /\ \A j \in 1..Len(n.batch) :
                       n.batch[j].op = "put" /\ n.batch[j].key.kind # "index"
                 /\ \A index \in MatchingIndexes(n.req) :
                       LET oi == indexKey(n.req, n.reader, index)
                           ni == indexKey(n.req, n.nVal, index)
                           niv == indexVal(LatestSchema(cfg, n.req), n.nVal)
                       IN /\ oi # EmptyKey =>
                                \E ts \in 0..clock :
                                   HasOp(n.batch, BatchPut(deleteOperationKey(n.req.part, ts), oi))
                          /\ ni # EmptyKey =>
                                HasOp(n.batch, BatchPut(modifyOperationKey(n.req.part, ni), niv))

\* During a rebuild set x = a, y = x + 1 has been committed on the stored
\* vertex whose x was 1: the batch was a delete-operation record, a
\* modify-operation record and the row, and all three are in the store.
C11_Witness ==
    /\ RebuildingThroughout
    /\ \E e \in Executors :
         LET n == node[e] IN
         /\ n.pc = "returning" /\ n.ret = SUCCEEDED /\ n.req = OrderVertex
         /\ Len(n.batch) = 3
         /\ n.batch[1].key.kind = "opDel" /\ n.batch[1].val.kind = "index"
         /\ n.batch[2].key.kind = "opMod"
         /\ n.batch[1].key \in DOMAIN store /\ n.batch[2].key \in DOMAIN store
         /\ store[RowKey(n.req)] = n.nVal

\* ---- C12: an executor whose index step was refused because the oracle
\* reported Locked has appended nothing and is leaving with the code
\* IndexLocked.
IndexLocked == "IndexLocked"
\* The row was encoded and the index step then ended without a batch: the only
\* way there is the refusal under Locked.
RefusedByLock(n) == n.pc = "returning" /\ n.lg /\ IsRow(n.nVal) /\ ~n.hasBatch
C12_IndexLockedCode ==
    \A e \in Executors :
        RefusedByLock(node[e]) => node[e].appends = 0 /\ node[e].ret = IndexLocked

\* Under Locked the tag executor of set x = a, y = x + 1 has been refused and
\* is leaving with E_STORAGE_QUERY_INVALID_DATA, the store as it was.
C12_Witness ==
    \E e \in Executors :
        /\ RefusedByLock(node[e]) /\ node[e].req = OrderVertex
        /\ indexState = "Locked" /\ oracleChanges = 0
        /\ node[e].appends = 0
        /\ node[e].ret = InvalidData
        /\ store = cfg.store0

\* ---- C13: while the oracle has reported Locked throughout, no executor whose
\* tag or edge type is targeted by an index has built or appended a batch,
\* whatever the row holds, and the store is as it was.
LockedThroughout == oracleChanges = 0 /\ indexState = "Locked"
C13_LockedRefusesWrite ==
    LockedThroughout =>
        /\ store = cfg.store0
        /\ \A e \in Executors :
              MatchingIndexes(node[e].req) # {} =>
                 node[e].appends = 0 /\ ~node[e].hasBatch

\* Under Locked set y = y + 1 has been committed on the stored vertex whose
\* indexed column x is null: no index key could be computed from the old or
\* the new row, the oracle was not asked, and the row was written.
C13_Witness ==
    /\ LockedThroughout
    /\ \E e \in Executors :
         LET n == node[e] IN
         /\ n.pc = "returning" /\ n.ret = SUCCEEDED /\ n.req = BumpVertex
         /\ n.appends = 1
         /\ \A index \in MatchingIndexes(n.req) :
               indexKey(n.req, n.reader, index) = EmptyKey
               /\ indexKey(n.req, n.nVal, index) = EmptyKey
         /\ MatchingIndexes(n.req) # {}
         /\ store[RowKey(n.req)] = n.nVal
         /\ store[RowKey(n.req)] # cfg.store0[RowKey(n.req)]

\* ---- C14: whenever the KV layer has answered LeaderChanged for a partition of
\* a write, the result recorded for the partition has code LeaderChanged and
\* carries the leader's address, and nothing of the data is visible.
\* The calls whose callback has recorded its code.
Recorded(j) == j \in DOMAIN proc.calls /\ proc.calls[j].pc \in {"counted", "done"}
Redirected(j) == Recorded(j) /\ proc.calls[j].code = LeaderChanged
EntriesFor(partId) == {k \in DOMAIN proc.codes : proc.codes[k].part_id = partId}
NothingVisible(partId) ==
    \A k \in 1..Len(PutData(partId)) : PutData(partId)[k].key \notin DOMAIN store
C14_LeaderRecorded ==
    \A j \in 1..NumParts :
        Redirected(j) =>
            /\ \E k \in EntriesFor(proc.parts[j]) :
                  /\ proc.codes[k].code = LeaderChanged
                  /\ proc.codes[k].leaderSet
                  /\ proc.codes[k].leader # NoAddr
            /\ NothingVisible(proc.parts[j])

\* C14 as the code has it: the result carries code LeaderChanged if partLeader
\* answers, with the leader's address if one is known, and partLeader's error
\* and no address otherwise; nothing of the data is visible.
C14_LeaderOrError ==
    \A j \in 1..NumParts :
        Redirected(j) =>
            LET addrRet == proc.partLeader[proc.parts[j]] IN
            /\ Cardinality(EntriesFor(proc.parts[j])) = 1
            /\ \A k \in EntriesFor(proc.parts[j]) :
                  /\ proc.codes[k].code = IF addrRet.ok THEN LeaderChanged ELSE addrRet.error
                  /\ proc.codes[k].leaderSet = (addrRet.ok /\ addrRet.leader # NoAddr)
                  /\ proc.codes[k].leaderSet => proc.codes[k].leader = addrRet.leader
            /\ NothingVisible(proc.parts[j])

\* Partition 1 answered LeaderChanged and its leader is known: the result
\* {E_LEADER_CHANGED, 1, storage2:9779} is recorded; partition 2 was written.
C14_Witness ==
    /\ proc.kind = "write" /\ proc.parts = <<1, 2>>
    /\ Redirected(1)
    /\ Recorded(2) /\ proc.calls[2].code = SUCCEEDED
    /\ \E k \in EntriesFor(1) :
          proc.codes[k] = PartitionResult(LeaderChanged, 1, HostAddr("storage2", 9779))
    /\ NothingVisible(1)
    /\ ~NothingVisible(2)

\* ---- C15: along every path of a request the result vector holds at most one
\* entry for each partition id.
C15_OncePerPart ==
    \A partId \in PartIds : Cardinality(EntriesFor(partId)) <= 1

\* A lookup over the list <<1, 1>> failed its request check: the vector holds
\* two entries for partition 1.
C15_Witness ==
    /\ proc.kind = "lookup" /\ proc.pc = "done" /\ proc.parts = <<1, 1>>
    /\ proc.i = 0
    /\ Cardinality(EntriesFor(1)) = 2
    /\ proc.finished = 1

\* ---- C16: with callingNum_ set to the number of asynchronous calls of a write,
\* under every interleaving of the callbacks onFinished is invoked exactly
\* once, by the callback that brought callingNum_ to 0 and after the code of
\* every callback has been recorded; callingNum_ is never negative.
CallIds == DOMAIN proc.calls
\* The callbacks that found callingNum_ at 0 in the locked section.
Finishers == {j \in CallIds : Recorded(j) /\ proc.calls[j].finished}
FailedCalls == {j \in CallIds : Recorded(j) /\ proc.calls[j].code # SUCCEEDED}
C16_FinishedOnce ==
    proc.kind = "write" =>
        /\ proc.callingNum >= 0
        /\ proc.callingNum = Cardinality({j \in CallIds : ~Recorded(j)})
        /\ proc.finished <= 1
        /\ Cardinality(Finishers) <= 1
        /\ Len(proc.codes) = Cardinality(FailedCalls)
        /\ Finishers # {} <=> (CallIds # {} /\ proc.callingNum = 0)
        /\ Finishers # {} => \A j \in CallIds : Recorded(j)
        /\ proc.finished = Cardinality({j \in Finishers : proc.calls[j].pc = "done"})
        /\ (CallIds # {} /\ \A j \in CallIds : proc.calls[j].pc = "done") => proc.finished = 1

\* A write over partitions 1 and 2 whose second call was answered first: the
\* callback of the first call found 0 and has invoked onFinished, once, with
\* both failures recorded.
C16_Witness ==
    /\ proc.kind = "write" /\ proc.parts = <<1, 2>> /\ CallIds = {1, 2}
    /\ \A j \in CallIds : proc.calls[j].pc = "done"
    /\ proc.calls[1].finished /\ ~proc.calls[2].finished
    /\ proc.finished = 1
    /\ proc.callingNum = 0
    /\ Len(proc.codes) = 2 /\ proc.codes[1].part_id = 2 /\ proc.codes[2].part_id = 1

\* ---- C17: an edge executor handed an edge key whose edge_type is not the
\* executor's, and whose read went through, leaves with KeyNotFound; it has
\* built and appended no batch and the row under the key is as it was,
\* whether a row is stored under the key or not and whatever insertable is.
Mismatched(n) == n.req.isEdge /\ n.req.etype # n.req.type_
ReadOk(n) == n.didRead /\ n.exeResult \notin (ReadCodes \ {SUCCEEDED})
StoredAt(st, k) == IF k \in DOMAIN st THEN st[k] ELSE NoRow
C17_EdgeTypeRule ==
    \A e \in Executors :
        LET n == node[e] IN
        (n.pc = "returning" /\ n.lg /\ Mismatched(n) /\ ReadOk(n)) =>
            /\ n.ret = KeyNotFound
            /\ n.appends = 0 /\ ~n.hasBatch /\ ~n.insert
            /\ StoredAt(store, RowKey(n.req)) = StoredAt(cfg.store0, RowKey(n.req))

\* With the transaction manager on, the executor for edge type 1 was handed the
\* stored reverse edge 1 -> 3: the closure set KeyNotFound and built no batch,
\* and execute is leaving with the manager's code.
C17_Witness ==
    \E e \in Executors :
        LET n == node[e] IN
        /\ n.pc = "returning" /\ n.lg /\ n.req = ReverseStored /\ ReadOk(n)
        /\ UsesTxn(cfg, n.req)
        /\ RowKey(n.req) \in DOMAIN store
        /\ n.exeResult = KeyNotFound
        /\ n.ret = AtomicOpFailed
        /\ n.appends = 0 /\ ~n.hasBatch
        /\ store = cfg.store0

\* ---- C18: an executor that has handed its batch to the KV layer leaves with
\* exactly the code of the layer's reply, and does not leave before the reply
\* has been delivered.
Handed(n) == n.appends > 0
C18_ReplySurfaced ==
    \A e \in Executors :
        LET n == node[e] IN
        Handed(n) =>
            /\ n.appends = 1
            /\ n.pc \in {"waiting", "returning"}
            /\ n.pc = "waiting" <=> n.reply = NoReply
            /\ n.pc = "returning" => n.reply \in KvCodes /\ n.ret = n.reply

\* The tag executor's batch was answered with a timeout and the edge
\* executor's, handed over directly, with LeaderChanged: each is leaving with
\* that code although its exeResult_ is SUCCEEDED.
C18_Witness ==
    \E e1, e2 \in Executors :
        /\ ~node[e1].req.isEdge /\ node[e1].pc = "returning" /\ Handed(node[e1])
        /\ node[e1].reply = Timeout /\ node[e1].ret = Timeout
        /\ node[e1].exeResult = SUCCEEDED
        /\ node[e2].req.isEdge /\ node[e2].pc = "returning" /\ Handed(node[e2])
        /\ node[e2].reply = LeaderChanged /\ node[e2].ret = LeaderChanged
        /\ node[e2].exeResult = SUCCEEDED

\* ---- C19: the index-build counter equals the number of executors in flight,
\* those leaving with ConcurrentModify included, and is at its base value
\* when none is in flight.
InFlight == {e \in Executors : node[e].pc # "idle"}
C19_CounterDrains ==
    /\ indexCount = Cardinality(InFlight)
    /\ AllIdle => indexCount = 0

\* Two executors are in flight, one of them leaving with ConcurrentModify, and
\* the counter is 2 after an earlier run has returned.
C19_Witness ==
    /\ indexCount = 2
    /\ Cardinality(InFlight) = 2
    /\ \E e \in InFlight :
          node[e].pc = "returning" /\ ~node[e].lg /\ node[e].ret = ConcurrentModify
    /\ BagCardinality(tally) >= 1

\* ---- C20: an append answered with LeaderChanged applies nothing, and a retry
\* of the same request that is then answered with SUCCEEDED applies the
\* increment once: at every time the stored count is the initial count plus
\* the runs that ended (or are ending) with SUCCEEDED, the redirected runs
\* counting for nothing.
SameRow(q, r) == q.isEdge = r.isEdge /\ RowKey(q) = RowKey(r)
Ending(r, code) ==
    Cardinality({e \in Executors :
                   /\ node[e].pc = "returning" /\ node[e].ret = code
                   /\ SameRow(node[e].req, r)})
AppliedOnce ==
    \A r \in cfg.menu :
        CountIn(store, r) = CountIn(cfg.store0, r) + Returned(r, SUCCEEDED)
                            + Ending(r, SUCCEEDED)
\* The reply to an executor's batch arrives in this step.
Replied(e) == node[e].pc \in {"waiting", "tmWait"} /\ node'[e].pc = "returning"
RedirectStep ==
    \A e \in Executors :
        Replied(e) =>
            /\ node'[e].ret = LeaderChanged => store' = store
            /\ (node'[e].ret = SUCCEEDED /\ Returned(node[e].req, LeaderChanged) > 0) =>
                  CountIn(store', node[e].req) = CountIn(store, node[e].req) + 1
C20_RedirectIdempotent == []AppliedOnce /\ [][RedirectStep]_vars

\* The increment of the vertex was answered with LeaderChanged, retried, and
\* the retry is leaving with SUCCEEDED: the count has grown by one.
C20_Witness ==
    \E e \in Executors :
        LET r == node[e].req IN
        /\ ~r.isEdge /\ node[e].pc = "returning" /\ node[e].reply = SUCCEEDED
        /\ \A o \in Executors \ {e} : node[o].pc = "idle"
        /\ Returned(r, LeaderChanged) = 1
        /\ Returned(r, SUCCEEDED) = 0
        /\ BagCardinality(tally) = 1
        /\ CountIn(store, r) = CountIn(cfg.store0, r) + 1

\* ---- C21: the batch of an executor never mixes the treatments of two index
\* states: it holds no direct index put or remove together with an
\* operation-log record, and under Locked no index operation is added to a
\* batch.
DirectOps(batch) == {j \in 1..Len(batch) : batch[j].key.kind = "index"}
LogOps(batch) == {j \in 1..Len(batch) : batch[j].key.kind \in {"opDel", "opMod"}}
OneTreatment == \A e \in Executors : DirectOps(node[e].batch) = {} \/ LogOps(node[e].batch) = {}
LockedStep ==
    \A e \in Executors :
        (node[e].pc = "index" /\ indexState = "Locked" /\ node'[e] # node[e]) =>
            /\ Cardinality(DirectOps(node'[e].batch)) = Cardinality(DirectOps(node[e].batch))
            /\ Cardinality(LogOps(node'[e].batch)) = Cardinality(LogOps(node[e].batch))
C21_OneIndexState == []OneTreatment /\ [][LockedStep]_vars

\* The state went from Normal to Rebuilding between the two index steps of
\* the update of vertex 1: the batch removes the old index entry directly,
\* logs the new one as a modify operation, and has been handed over.
C21_Witness ==
    \E e \in Executors :
        LET n == node[e] IN
        /\ n.req = OrderVertex /\ n.pc = "waiting" /\ n.hasBatch
        /\ oracleChanges = 1 /\ indexState = "Rebuilding"
        /\ Len(n.batch) = 3
        /\ n.batch[1] = BatchRemove(indexKey(n.req, n.reader, cfg.tagIndexes[1]))
        /\ n.batch[2].op = "put" /\ n.batch[2].key.kind = "opMod"
        /\ n.batch[3] = BatchPut(RowKey(n.req), n.nVal)

\* ---- C22: the response row's first column is _inserted, and it is true exactly
\* when the executor found no row, was allowed to insert and did; it is false
\* when a stored row was updated or filtered out.
TookInsert(n) == n.ret = SUCCEEDED /\ ~IsRow(n.val) /\ n.req.insertable
Responds(n) == n.pc = "returning" /\ n.ret \in {SUCCEEDED, FilteredOut}
C22_InsertedColumn ==
    [][\A e \in Executors :
         (Responds(node[e]) /\ node'[e].pc = "idle") =>
            /\ Len(result'[e].rows) = 1
            /\ result'[e].colNames[1] = <<"_inserted">>
            /\ Len(result'[e].rows[1]) = Len(result'[e].colNames)
            /\ result'[e].rows[1][1] = TookInsert(node[e])
            /\ (IsRow(node[e].val) \/ node[e].ret = FilteredOut) =>
                  result'[e].rows[1][1] = FALSE]_vars

\* One executor has inserted vertex 2 and answered _inserted = true, the other
\* has updated the stored edge and answered _inserted = false.
C22_Witness ==
    /\ AllIdle
    /\ \E e1, e2 \in Executors :
          /\ result[e1].colNames = <<<<"_inserted">>>> \o YieldNames(InsertY)
          /\ result[e1].rows = <<<<TRUE, Null, 3>>>>
          /\ result[e2].colNames = <<<<"_inserted">>>> \o YieldNames(OrderEdge)
          /\ result[e2].rows = <<<<FALSE, 5, 6>>>>
    /\ BagToSet(tally) = {[req |-> InsertY, ret |-> SUCCEEDED],
                          [req |-> OrderEdge, ret |-> SUCCEEDED]}

\* ---- C23: after any sequence of puts and removes, get(k) returns SUCCEEDED and
\* the value of the last put of k if no remove of k followed it, and
\* E_KEY_NOT_FOUND if k was never put or was last removed; an empty value is
\* found like any other.
Expected(last) ==
    IF last.op = "put" THEN GetRes(SUCCEEDED, last.val) ELSE GetRes(EngKeyNotFound, "")
GetStep ==
    (eng'.out # eng.out /\ eng'.out.kind = "get") =>
        /\ eng'.log = eng.log
        /\ eng'.out.res = Expected(eng.last[eng'.out.key])
C23_KeyedAccess ==
    /\ [](\A k \in EngKeys : ReadAt(eng.log, Len(eng.log), k) = Expected(eng.last[k]))
    /\ [][GetStep]_vars

\* k0 was put, removed and put again with the empty value, and j0 never: the
\* get of k0 has returned SUCCEEDED and "", and a get of j0 would not find it.
C23_Witness ==
    /\ eng.log = <<Version("value", <<"k", "0">>, "old"), Version("delete", <<"k", "0">>, ""),
                   Version("value", <<"k", "0">>, "")>>
    /\ eng.out.kind = "get" /\ eng.out.key = <<"k", "0">>
    /\ eng.out.res = GetRes(SUCCEEDED, "")
    /\ ReadAt(eng.log, 2, <<"k", "0">>).code = EngKeyNotFound
    /\ ReadAt(eng.log, Len(eng.log), <<"j", "0">>).code = EngKeyNotFound

\* ---- C24: a prefix scan through a snapshot returns, for every key, the value
\* it had when the snapshot was taken, whatever was put since; a scan without
\* a snapshot returns the latest value of every key.
\* The pairs a scan of prefix p finds when the last operations on the keys
\* are as in last.
ScanOf(last, p) ==
    LET Has(k) == HasPrefix(k, p) /\ last[k].op = "put"
        ks == SelectSeq(KeyOrder, Has)
    IN [j \in 1..Len(ks) |-> <<ks[j], last[ks[j]].val>>]
ScanStep ==
    (eng'.out # eng.out /\ eng'.out.kind = "prefix") =>
        /\ eng'.log = eng.log
        /\ eng'.out.res = ScanOf(IF eng'.out.snap THEN eng.view ELSE eng.last, eng'.out.key)
TableOf(r) == IF r.isEdge THEN edgesML ELSE verticesML
AtWork(n) ==
    \/ n.pc \in {"locked", "index", "batched", "waiting", "tmWait"}
    \/ n.didRead \/ IsRow(n.nVal) \/ n.batch # <<>> \/ n.appends > 0
HoldsLock(n) == n.lg /\ LockKey(n.req) \in TableOf(n.req)
LockOverWork ==
    \A e \in Executors :
        LET n == node[e] IN
        /\ AtWork(n) => HoldsLock(n)
        /\ n.pc \in {"index", "batched", "waiting", "tmWait"} /\ n.exeResult = SUCCEEDED =>
              StoredAt(store, RowKey(n.req)) = n.val
ReleaseStep ==
    \A e \in Executors :
        (HoldsLock(node[e]) /\ LockKey(node[e].req) \notin
            (IF node[e].req.isEdge THEN edgesML' ELSE verticesML')) =>
            /\ node[e].pc = "returning" /\ node'[e].pc = "idle"
            /\ node[e].appends > 0 => node[e].reply # NoReply
C25_LockOverRmw == []LockOverWork /\ [][ReleaseStep]_vars

\* The tag executor has appended its batch and waits for the reply, the edge
\* executor waits for the manager's future; both hold their keys, and the
\* rows they read are still the stored ones.
C25_Witness ==
    \E e1, e2 \in Executors :
        /\ ~node[e1].req.isEdge /\ node[e1].pc = "waiting" /\ node[e1].appends = 1
        /\ LockKey(node[e1].req) \in verticesML
        /\ node[e2].req.isEdge /\ node[e2].pc = "tmWait" /\ node[e2].hasBatch
        /\ LockKey(node[e2].req) \in edgesML
        /\ StoredAt(store, RowKey(node[e2].req)) = node[e2].val
        /\ BagCardinality(tally) = 1


\* ---- C26: an executor returns SUCCEEDED only for a batch it produced and
\* handed over, and only on the SUCCEEDED reply that committed it; a run that
\* produces no batch (read error, illegal data, filtered out, key not found,
\* schema or default failure, decode or encode failure, index locked) returns
\* another code, hands nothing over and leaves the store as it was.
\* The run of executor e ends its wait in this step.
Answered(e) ==
    node[e].pc \in {"waiting", "tmWait"} /\ node'[e].pc = "returning"
SucceededOnlyCommitted ==
    \A e \in Executors :
        node[e].pc = "returning" =>
            /\ node[e].ret = SUCCEEDED =>
                  /\ node[e].hasBatch
                  /\ node[e].lg
                  /\ UsesTxn(cfg, node[e].req) \/ (node[e].appends = 1 /\ node[e].reply = SUCCEEDED)
            /\ ~node[e].hasBatch => node[e].ret # SUCCEEDED /\ node[e].appends = 0
CommitStep ==
    /\ \A e \in Executors :
          (node[e].pc # "returning" /\ node'[e].pc = "returning" /\ node'[e].ret = SUCCEEDED)
              => /\ Answered(e)
                 /\ node[e].hasBatch
                 /\ store' = ApplyBatch(store, node[e].batch)
    /\ store' # store =>
          \E e \in Executors :
              Answered(e) /\ node[e].hasBatch /\ node'[e].ret = SUCCEEDED
RemoveThenPut(b, k) ==
    \E p, q \in 1..Len(b) :
        /\ p < q
        /\ b[p] = BatchRemove(k)
        /\ b[q].op = "put" /\ b[q].key = k
        /\ \A j \in (q + 1)..Len(b) : b[j].key # k
\* The indexes of executor n's schema whose key is the same for the row read
\* and the row encoded.
SameKeyIndexes(n) ==
    {j \in MatchingFrom(cfg, n.req, 1) :
        /\ indexKey(n.req, n.reader, Indexes(cfg, n.req)[j]) # EmptyKey
        /\ indexKey(n.req, n.reader, Indexes(cfg, n.req)[j])
             = indexKey(n.req, n.nVal, Indexes(cfg, n.req)[j])}
UnchangedKeyKept ==
    \A e \in Executors :
        LET n == node[e] IN
        (/\ n.hasBatch /\ n.pc \in {"batched", "waiting", "tmWait"}
         /\ IsRow(n.val)
         /\ oracleChanges = 0 /\ indexState = "Normal")
        => \A j \in SameKeyIndexes(n) :
              LET k == indexKey(n.req, n.nVal, Indexes(cfg, n.req)[j]) IN
              /\ RemoveThenPut(n.batch, k)
              /\ k \in DOMAIN ApplyBatch(store, n.batch)
              /\ ApplyBatch(store, n.batch)[k] = indexVal(LatestSchema(cfg, n.req), n.nVal)
EntrySurvives ==
    \A e \in Executors :
        (Answered(e) /\ node'[e].ret = SUCCEEDED)
        => \A j \in 1..Len(node[e].batch) :
              RemoveThenPut(node[e].batch, node[e].batch[j].key)
                 => node[e].batch[j].key \in DOMAIN store'
C27_UnchangedIndexSurvives == []UnchangedKeyKept /\ [][EntrySurvives]_vars
\* The touch of the stored edge has been committed: its batch removed and put
\* the key of the index on y, and the entry is in the store.
C27_Witness ==
    \E e \in Executors :
        LET n == node[e] IN
        /\ n.pc = "returning" /\ n.ret = SUCCEEDED /\ n.req = TouchEdge
        /\ SameKeyIndexes(n) # {}
        /\ \A j \in SameKeyIndexes(n) :
              /\ RemoveThenPut(n.batch, indexKey(n.req, n.nVal, Indexes(cfg, n.req)[j]))
              /\ indexKey(n.req, n.nVal, Indexes(cfg, n.req)[j]) \in DOMAIN store


\* ---- C28: the old index entry is handled only on the update branch. A batch
\* built without an old row (the insert path) holds no remove and no
\* delete-operation log record; on the update branch the old key is computed
\* from the row that was read, and the step records a remove (Normal) or a
\* delete-operation log record (Rebuilding) exactly when that key is not empty.
\* The operations of batch b that handle an old index entry.
IsOldOp(o) == o.op = "remove" \/ (o.op = "put" /\ o.key.kind = "opDel")
OldOpCount(b) == Cardinality({j \in 1..Len(b) : IsOldOp(b[j])})
\* Executor e takes the step for the old entry of its current index.
OldStep(e) ==
    node[e].pc = "index" /\ node[e].phase = "old" /\ node'[e] # node[e]
NoOldOnInsert ==
    \A e \in Executors :
        (node[e].insert \/ ~IsRow(node[e].val)) => OldOpCount(node[e].batch) = 0
OldHandling ==
    \A e \in Executors :
        LET n == node[e]
            oi == indexKey(n.req, n.reader, Indexes(cfg, n.req)[n.i])
        IN IF OldStep(e)
           THEN /\ IsRow(n.val) /\ n.val = n.reader /\ ~n.insert
                /\ RowKey(n.req) \in DOMAIN store /\ n.reader = store[RowKey(n.req)]
                /\ node'[e].batch =
                     IF oi = EmptyKey \/ indexState = "Locked" THEN n.batch
                     ELSE IF indexState = "Rebuilding"
                     THEN Append(n.batch, BatchPut(deleteOperationKey(n.req.part, clock), oi))
                     ELSE Append(n.batch, BatchRemove(oi))
           ELSE OldOpCount(node'[e].batch) <= OldOpCount(n.batch)
C28_OldIndexOnUpdateOnly == []NoOldOnInsert /\ [][OldHandling]_vars
\* An upsert that found no row has committed a batch without any old-index
\* operation, while an update of a stored row, built during a rebuild, holds
\* a delete-operation log record for its old key.
C28_Witness ==
    /\ \E h \in BagToSet(tally) : h.req = InsertY /\ h.ret = SUCCEEDED
    /\ \E e \in Executors :
          LET n == node[e] IN
          /\ n.hasBatch /\ IsRow(n.val) /\ n.req = OrderEdge
          /\ \E j \in 1..Len(n.batch) :
                /\ n.batch[j].op = "put" /\ n.batch[j].key.kind = "opDel"
                /\ n.batch[j].val = indexKey(n.req, n.reader, Indexes(cfg, n.req)[1])


\* ---- C29: on the insert path a column needs a default or null when an
\* update reads it before any earlier update of the clause has assigned it
\* (a later assignment does not help), or when the clause neither reads nor
\* assigns it; a column only assigned needs neither. The upsert fails with
\* NoDefaultAndNotNullable exactly when such a column has neither, and then
\* builds no batch and writes nothing.
\* The columns the clause reads at a position no earlier update has assigned.
ReadUnassigned(ups) ==
    {p \in UNION {DepProps(ups[i].value) : i \in 1..Len(ups)} :
        \E i \in 1..Len(ups) :
            /\ p \in DepProps(ups[i].value)
            /\ \A j \in 1..(i - 1) : ups[j].name # p}
\* The columns the clause does not mention.
Unmentioned(sch, ups) ==
    FieldNames(sch) \ ({ups[i].name : i \in 1..Len(ups)}
                       \cup UNION {DepProps(ups[i].value) : i \in 1..Len(ups)})
NeedsValue(sch, ups) == ReadUnassigned(ups) \cup Unmentioned(sch, ups)
Unresolvable(sch, ups) ==
    \E p \in NeedsValue(sch, ups) : ~(FieldOf(sch, p).hasDefault \/ FieldOf(sch, p).nullable)
\* Executor n has gone down the insert path and is about to return.
InsertEnded(n) == n.pc = "returning" /\ n.insert
InsertRule ==
    \A e \in Executors :
        LET n == node[e]
            sch == LatestSchema(cfg, n.req)
        IN InsertEnded(n) =>
            /\ (n.exeResult = NoDefaultAndNotNullable) <=> Unresolvable(sch, n.req.updatedProps)
            /\ Unresolvable(sch, n.req.updatedProps) =>
                  /\ ~n.hasBatch /\ n.batch = <<>> /\ n.appends = 0
                  /\ n.ret # SUCCEEDED
                  /\ ~UsesTxn(cfg, n.req) => n.ret = NoDefaultAndNotNullable
                  /\ RowKey(n.req) \notin DOMAIN store
NothingWritten ==
    \A e \in Executors :
        (node'[e].pc = "returning" /\ node'[e].exeResult = NoDefaultAndNotNullable
         /\ node[e].pc # "idle")
            => store' = store
C29_InsertDefaults == []InsertRule /\ [][NothingWritten]_vars
\* The upsert set x = y + 1, y = 3 of the missing vertex has failed with
\* NoDefaultAndNotNullable: y is read before it is assigned.
C29_Witness ==
    \E e \in Executors :
        /\ InsertEnded(node[e])
        /\ node[e].req = Upsert(FALSE, <<Update("x", Plus("y", 1)), Update("y", Const(3))>>)
        /\ node[e].ret = NoDefaultAndNotNullable
        /\ RowKey(node[e].req) \notin DOMAIN store


\* ---- C30: executors on distinct row identities do not conflict. An executor
\* leaves with ConcurrentModify at the lock step only if another executor of
\* its kind holds the lock of the very same identity, (space, part, tag, vid)
\* or (space, part, src, type, rank, dst); executors whose identities differ in
\* any component are in flight together.
Identity(r) ==
    IF r.isEdge
    THEN [isEdge |-> TRUE, space |-> r.space, part |-> r.part, src |-> r.vid,
          type |-> r.etype, rank |-> r.rank, dst |-> r.dst, tag |-> 0]
    ELSE [isEdge |-> FALSE, space |-> r.space, part |-> r.part, src |-> r.vid,
          type |-> 0, rank |-> 0, dst |-> 0, tag |-> r.type_]
\* Executor e enters execute in this step.
Enters(e) == node[e].pc = "idle" /\ node'[e].pc # "idle"
ConflictHasHolder ==
    \A e \in Executors :
        Enters(e) =>
            IF \E f \in Executors \ {e} :
                   node[f].lg /\ Identity(node[f].req) = Identity(node'[e].req)
            THEN ~node'[e].lg /\ node'[e].ret = ConcurrentModify
            ELSE node'[e].lg /\ node'[e].pc = "locked"
NoForeignConflict ==
    \A e \in Executors :
        (node[e].pc = "returning" /\ node[e].ret = ConcurrentModify) => ~node[e].lg
C30_DistinctRowsNoConflict == []NoForeignConflict /\ [][ConflictHasHolder]_vars
\* Two executors on identities that differ are past the lock step together,
\* both holding their locks, and no run has ended with ConcurrentModify.
C30_Witness ==
    /\ \E e, f \in Executors :
          /\ e # f /\ node[e].lg /\ node[f].lg
          /\ node[e].req.isEdge = node[f].req.isEdge
          /\ Identity(node[e].req) # Identity(node[f].req)
          /\ node[e].pc = "waiting" /\ node[f].pc = "waiting"
    /\ \A h \in BagToSet(tally) : h.ret # ConcurrentModify

\* ---- C31: every executor that has entered execute returns and its lock key
\* leaves the lock table, given that the KV layer and the transaction manager
\* deliver their replies; outside the two waits (baton.wait() after
\* asyncAppendBatch, f.wait() on the manager's future) the executor's next
\* step is always possible and takes it strictly forward, and out of a wait
\* only the reply takes it.
Suspended(e) == node[e].pc \in {"waiting", "tmWait"}
\* How far execute has come: the read, the index loop by index and step, the
\* append, the wait, the return.
Progress(n) ==
    LET loop == 2 * (Len(Indexes(cfg, n.req)) + 2) IN
    CASE n.pc = "locked" -> 0
      [] n.pc = "index" -> 2 * n.i + (IF n.phase = "new" THEN 1 ELSE 0)
      [] n.pc = "batched" -> loop
      [] n.pc \in {"waiting", "tmWait"} -> loop + 1
      [] n.pc = "returning" -> loop + 2
      [] OTHER -> loop + 3
NeverBlocked ==
    \A e \in Executors :
        /\ node[e].pc \in {"idle", "locked", "index", "batched", "waiting", "tmWait", "returning"}
        /\ node[e].pc \in {"index", "batched", "returning"} => ENABLED OwnStep(e)
        /\ Suspended(e) => ENABLED ReplyStep(e)
Advances ==
    \A e \in Executors :
        (node[e].pc # "idle" /\ node'[e] # node[e]) =>
            /\ Progress(node'[e]) > Progress(node[e]) \/ node'[e].pc = "idle"
            /\ node'[e].pc = "idle" => node[e].pc = "returning"
            /\ Suspended(e) => node'[e].pc = "returning"
HoldsKey(e) ==
    node[e].lg /\ LockKey(node[e].req) \in (IF node[e].req.isEdge THEN edgesML ELSE verticesML)
C31_Terminates ==
    /\ \A e \in Executors :
          (node[e].pc # "idle") ~> (/\ node[e].pc = "idle" /\ ~HoldsKey(e)
                                    /\ verticesML = Held(FALSE) /\ edgesML = Held(TRUE))
    /\ []NeverBlocked
    /\ [][Advances]_vars
\* One executor is suspended on the KV layer's reply and another on the
\* transaction manager's, both holding their locks, and a run has returned.
C31_Witness ==
    \E e \in Executors :
        /\ node[e].pc = "waiting" /\ HoldsKey(e)
        /\ \E f \in Executors \ {e} : node[f].pc = "tmWait" /\ HoldsKey(f)
        /\ BagToSet(tally) # {}

\* ---- C32: an executor whose update expressions do not all decode, or whose
\* final property map the row writer refuses (setValue or finish fails), is
\* leaving with InvalidData; it has built and appended no batch and the row
\* is as it was read.
\* Executor n has filled props_ and gone into updateAndWriteBack.
InWriteBack(n) == n.pc = "returning" /\ n.lg /\ ReadOk(n) /\ n.props # <<>>
Undecodable(r) == \E i \in 1..Len(r.updatedProps) : ~Decodes(r.updatedProps[i].value)
Unencodable(n) ==
    \/ \E p \in DOMAIN n.props : ~SetValueOk(LatestSchema(cfg, n.req), p, n.props[p])
    \/ ~FinishOk(LatestSchema(cfg, n.req), n.props)
C32_EncodeFailure ==
    \A e \in Executors :
        LET n == node[e] IN
        (InWriteBack(n) /\ (Undecodable(n.req) \/ Unencodable(n))) =>
            /\ n.ret = InvalidData
            /\ n.appends = 0 /\ ~n.hasBatch
            /\ StoredAt(store, RowKey(n.req)) = n.reader
\* Under the transaction manager the update of the stored edge with a value of
\* the wrong type is leaving with the manager's code while exeResult_ holds
\* InvalidData; nothing was appended.
C32_Witness ==
    \E e \in Executors :
        LET n == node[e] IN
        /\ InWriteBack(n) /\ n.req = EncodeFail /\ Unencodable(n) /\ ~Undecodable(n.req)
        /\ UsesTxn(cfg, n.req)
        /\ n.exeResult = InvalidData /\ n.ret # InvalidData
        /\ n.appends = 0 /\ ~n.hasBatch


\* ---- C33: on the edge path a closure that returned no batch has left a code
\* other than SUCCEEDED in exeResult_. Without the transaction manager execute
\* then returns exactly that code and has not called asyncAppendBatch; with it
\* the executor never calls asyncAppendBatch and returns what the manager
\* answered (E_UNKNOWN for an invalid future), whatever exeResult_ holds.
\* The closure of edge executor n has run and returned none.
ClosureNone(n) ==
    /\ n.req.isEdge /\ n.lg /\ n.didRead /\ ~n.hasBatch
    /\ n.pc \in {"tmWait", "returning"}
NoneHasCode ==
    \A e \in Executors :
        LET n == node[e] IN
        /\ ClosureNone(n) => n.exeResult # SUCCEEDED
        /\ (ClosureNone(n) /\ ~UsesTxn(cfg, n.req) /\ n.pc = "returning") =>
              n.ret = n.exeResult /\ n.appends = 0
        /\ (n.req.isEdge /\ UsesTxn(cfg, n.req)) => n.appends = 0 /\ n.reply = NoReply
        /\ (ClosureNone(n) /\ UsesTxn(cfg, n.req) /\ n.pc = "returning") =>
              n.ret \in {AtomicOpFailed, Unknown}
ManagerAnswers ==
    \A e \in Executors :
        (node[e].pc = "tmWait" /\ node'[e] # node[e]) =>
            /\ node'[e].pc = "returning"
            /\ node'[e].ret \in TmCodes(node[e].hasBatch)
            /\ node'[e].exeResult = node[e].exeResult
            /\ ~node[e].hasBatch => store' = store
C33_ClosureNone == []NoneHasCode /\ [][ManagerAnswers]_vars
\* The filtered-out edge update under the transaction manager: the closure
\* left FilteredOut in exeResult_ and returned none, and execute is leaving
\* with the E_UNKNOWN of an invalid future.
C33_Witness ==
    \E e \in Executors :
        LET n == node[e] IN
        /\ ClosureNone(n) /\ n.pc = "returning" /\ UsesTxn(cfg, n.req)
        /\ n.req = FilteredEdge /\ n.exeResult = FilteredOut
        /\ n.ret = Unknown /\ n.appends = 0


\* ---- C34: the result node appends a row if and only if the update returned
\* SUCCEEDED or FilteredOut; on every other code the data set (column names and
\* rows) is left as it was; in all cases the code the update returned is the
\* code the result node returns.
RowProducing(code) == code \in {SUCCEEDED, FilteredOut}
ResReturns(e) == node[e].pc = "returning" /\ node'[e].pc = "idle"
RowIffProducing ==
    \A e \in Executors :
       ResReturns(e) =>
          /\ (Len(result'[e].rows) = Len(result[e].rows) + 1) <=> RowProducing(node[e].ret)
          /\ RowProducing(node[e].ret) =>
                /\ SubSeq(result'[e].rows, 1, Len(result[e].rows)) = result[e].rows
                /\ result'[e].rows[Len(result'[e].rows)] =
                      <<node[e].insert>> \o YieldVals(node[e].req, node[e].ctx)
          /\ ~RowProducing(node[e].ret) => result'[e] = result[e]
          /\ tally' = tally (+) SetToBag({[req |-> node[e].req, ret |-> node[e].ret]})
C34_RowIffSucceededOrFiltered == [][RowIffProducing]_vars
\* An executor whose data set holds a row of a filtered-out run and one of a
\* succeeded run, after a third run that ended with KeyNotFound.
C34_Witness ==
    \E e \in Executors :
       /\ node[e].pc = "idle"
       /\ Len(result[e].rows) = 2
       /\ BagIn([req |-> FilteredEdge, ret |-> FilteredOut], tally)
       /\ BagIn([req |-> FilteredVertex, ret |-> SUCCEEDED], tally)
       /\ BagIn([req |-> FilteredVertex, ret |-> KeyNotFound], tally)
       /\ node[3 - e].pc = "idle" /\ result[3 - e] = EmptyDataSet


\* ---- C35: after any number of runs of the result node that wrote to the
\* same data set, the data set has as many column names as 1 + the number of
\* yield expressions, and every row has that many values.
WellFormed(ds, r) ==
    /\ Len(ds.colNames) = 1 + Len(r.yields)
    /\ \A i \in 1..Len(ds.rows) : Len(ds.rows[i]) = Len(ds.colNames)
C35_WellFormed ==
    \A e \in Executors :
       result[e].rows # <<>> => \A r \in cfg.menu : WellFormed(result[e], r)
\* A data set written by a succeeded and a filtered-out run of the same result
\* node: two rows of three values under six column names.
C35_Witness ==
    \E e \in Executors :
       /\ node[e].pc = "idle"
       /\ result[e].rows = <<<<FALSE, 1, Null>>, <<TRUE, Null, 1>>>>
       /\ result[e].colNames = <<<<"_inserted">>>> \o YieldNames(OrderVertex)
                               \o <<<<"_inserted">>>> \o YieldNames(OrderVertex)
       /\ BagIn([req |-> OrderVertex, ret |-> SUCCEEDED], tally)
       /\ BagIn([req |-> MissingEdge, ret |-> FilteredOut], tally)
\* After one writing run the data set is well-formed, and every row has
\* 1 + the number of yield expressions values however many runs wrote.
OneRowWellFormed ==
    \A e \in Executors :
       /\ Len(result[e].rows) = 1 => \A r \in cfg.menu : WellFormed(result[e], r)
       /\ \A r \in cfg.menu : \A i \in 1..Len(result[e].rows) :
             Len(result[e].rows[i]) = 1 + Len(r.yields)
       /\ \A r \in cfg.menu :
             Len(result[e].colNames) = Len(result[e].rows) * (1 + Len(r.yields))


\* ---- C36: index operations are emitted exactly for the indexes that target
\* the executor's schema: every index whose schema id is the executor's tag id
\* or edge type has its old and new entries in the batch, an index of another
\* schema id has no put, remove or operation-log record in it, and the put of
\* the primary row is the last operation, the only one when no index matches.
\* The index an operation of a batch is about.
IndexIdOf(o) == IF o.key.kind = "opDel" THEN o.val.idx ELSE o.key.idx
IsIndexOp(o) == o.key.kind \in {"index", "opDel", "opMod"}
Targets(r) ==
    {Indexes(cfg, r)[j].indexId :
        j \in {j \in 1..Len(Indexes(cfg, r)) : Indexes(cfg, r)[j].schemaId = r.type_}}
Foreign(r) ==
    {Indexes(cfg, r)[j].indexId :
        j \in {j \in 1..Len(Indexes(cfg, r)) : Indexes(cfg, r)[j].schemaId # r.type_}}
TargetOps(n) ==
    /\ \A j \in 1..Len(n.batch) :
          IsIndexOp(n.batch[j]) =>
             IndexIdOf(n.batch[j]) \in Targets(n.req) /\ IndexIdOf(n.batch[j]) \notin Foreign(n.req)
    /\ n.hasBatch =>
          /\ n.batch[Len(n.batch)] = BatchPut(RowKey(n.req), n.nVal)
          /\ \A j \in 1..(Len(n.batch) - 1) : IsIndexOp(n.batch[j])
          /\ \A j \in 1..Len(Indexes(cfg, n.req)) :
                LET index == Indexes(cfg, n.req)[j]
                IN index.schemaId = n.req.type_ =>
                      /\ OldOpsOf(n, index) # {} =>
                            \E o \in OldOpsOf(n, index) : HasOp(n.batch, o)
                      /\ NewOpsOf(n, index) # {} =>
                            \E o \in NewOpsOf(n, index) : HasOp(n.batch, o)
          /\ Targets(n.req) = {} => n.batch = <<BatchPut(RowKey(n.req), n.nVal)>>
C36_OnlyTargetIndexes == \A e \in Executors : TargetOps(node[e])
\* The vertex executor under a tag index of schema 2 followed by one of schema
\* 1, with a finished batch of the old entry's remove, the new entry's put and
\* the row, while the edge executor under an index of schema 1 followed by one
\* of schema 2 has a batch of the same three kinds.
C36_Witness ==
    \E e1, e2 \in Executors :
       /\ node[e1].req = OrderVertex /\ node[e1].hasBatch /\ Len(node[e1].batch) = 3
       /\ Foreign(OrderVertex) = {3} /\ Targets(OrderVertex) = {1}
       /\ node[e1].batch[1].op = "remove" /\ node[e1].batch[2].key.kind = "index"
       /\ node[e2].req = OrderEdge /\ node[e2].hasBatch /\ Len(node[e2].batch) = 3
       /\ Foreign(OrderEdge) = {4}


\* ---- C37: a successful alter of an edge adds exactly one schema entry for
\* the edge type, under the latest existing version plus one, and leaves every
\* earlier entry as it was; a failing alter (edge not found, index conflict,
\* TTL conflict, full-text index conflict, invalid column or default) writes
\* nothing; onFinished is called exactly once either way.
Served(kind) == meta'.served = meta.served + 1 /\ meta'.last.kind = kind
VersionsOf(kv, type) == {k.ver : k \in SchemaKeys(kv, type)}
AlterAdds ==
    LET type == meta.kv[indexEdgeKey(meta'.last.req.name)]
        added == DOMAIN meta'.kv \ DOMAIN meta.kv
    IN /\ \E v \in 0..(MaxReqs + 2) :
             /\ added = {schemaEdgeKey(type, v)}
             /\ v - 1 \in VersionsOf(meta.kv, type)
             /\ \A w \in VersionsOf(meta.kv, type) : w < v
       /\ DOMAIN meta.kv \subseteq DOMAIN meta'.kv
       /\ \A k \in DOMAIN meta.kv : meta'.kv[k] = meta.kv[k]
AlterRule ==
    Served("alter") =>
       /\ meta'.finished = 1
       /\ meta'.code = SUCCEEDED => AlterAdds
       /\ meta'.code # SUCCEEDED => meta'.kv = meta.kv
       /\ indexEdgeKey(meta'.last.req.name) \notin DOMAIN meta.kv => meta'.code # SUCCEEDED
       /\ meta'.last.fault # NoFault => meta'.code = KvFault \/ meta'.kv = meta.kv
       /\ UNCHANGED <<meta.indexes, meta.ftIndexes>>
C37_AlterAddsOneVersion == [][AlterRule]_vars
\* e1 after two successful alters holds the versions 0 to 3, and a third alter
\* that changes the indexed column was refused and answered once.
C37_Witness ==
    /\ meta.served = 3 /\ meta.last.kind = "alter"
    /\ VersionsOf(meta.kv, 1) = 0..3
    /\ meta.code = MetaConflict /\ meta.finished = 1
    /\ meta.indexes # {}
    /\ meta.kv[schemaEdgeKey(1, 1)] = EdgeSchema(BaseColumns, SchemaProp("", 0))


\* ---- C38: an edge type never has both a secondary index and an effective
\* TTL: an alter of an indexed edge that sets a non-empty TTL column together
\* with a positive duration is refused with the schema unchanged, and after
\* any sequence of alters no schema of an indexed edge has a TTL in effect.
Effective(prop) == prop.ttlCol # "" /\ prop.ttlDuration > 0
SetsTtl(req) == req.prop.ttlCol \notin {Unset, ""} /\ req.prop.ttlDuration > 0
NoTtlUnderIndex ==
    \A k \in DOMAIN meta.kv :
       k.kind = "schema" /\ getIndexes(meta, k.type) # {} => ~Effective(meta.kv[k].prop)
TtlRefused ==
    LET req == meta'.last.req
        nameKey == indexEdgeKey(req.name)
    IN Served("alter") /\ nameKey \in DOMAIN meta.kv /\ SetsTtl(req)
       /\ getIndexes(meta, meta.kv[nameKey]) # {}
       => /\ meta'.code # SUCCEEDED
          /\ meta'.kv = meta.kv
          /\ meta'.finished = 1
          /\ (meta'.last.fault \in {NoFault, "getFTIndex", "write"}
              /\ indexCheck(getIndexes(meta, meta.kv[nameKey]), req.items) = SUCCEEDED)
             => meta'.code = ChangeForbiddenTtl
DropRule ==
    LET req == meta'.last.req
        nameKey == indexEdgeKey(req.name)
        type == meta.kv[nameKey]
        gone == {k \in DOMAIN meta.kv : k.kind = "schema" /\ k.type = type} \cup {nameKey}
    IN Served("drop") /\ nameKey \in DOMAIN meta.kv =>
          /\ getIndexes(meta, type) # {} =>
                /\ meta'.code \notin {SUCCEEDED, DropForbiddenFt}
                /\ meta'.last.fault # "getEdgeType" /\ meta'.last.fault # "getIndexes"
                      => meta'.code = DropForbiddenIndex
          /\ getFTIndex(meta, type) # {} =>
                /\ meta'.code # SUCCEEDED
                /\ getIndexes(meta, type) = {} /\ meta'.last.fault \in {NoFault, "doPrefix", "write"}
                      => meta'.code = DropForbiddenFt
          /\ meta'.code # SUCCEEDED => meta'.kv = meta.kv
          /\ meta'.code = SUCCEEDED =>
                /\ DOMAIN meta'.kv = DOMAIN meta.kv \ gone
                /\ \A k \in DOMAIN meta'.kv : meta'.kv[k] = meta.kv[k]
                /\ SchemaKeys(meta'.kv, type) = {}
          /\ meta'.finished = 1
          /\ UNCHANGED <<meta.indexes, meta.ftIndexes>>
NameHasSchema ==
    \A k \in DOMAIN meta.kv :
       /\ k.kind = "edgeName" => SchemaKeys(meta.kv, meta.kv[k]) # {}
       /\ k.kind = "schema" => \E n \in DOMAIN meta.kv : n.kind = "edgeName" /\ meta.kv[n] = k.type
C39_DropRemovesAllVersions == []NameHasSchema /\ [][DropRule]_vars
\* e1 was altered twice, so that it had four versions, and then dropped: only
\* the entries of e2 remain.
C39_Witness ==
    /\ meta.served = 3 /\ meta.last = [kind |-> "drop", req |-> DropReq("e1", FALSE), fault |-> NoFault]
    /\ meta.code = SUCCEEDED /\ meta.finished = 1
    /\ DOMAIN meta.kv = {indexEdgeKey("e2"), schemaEdgeKey(2, 0)}

\* ---- C40: a drop of an edge name that does not exist is answered SUCCEEDED
\* when the request has if_exists set and E_META_SCHEMA_EDGE_NOT_FOUND when it
\* has not; nothing is removed and onFinished is called exactly once.
DropMissing ==
    LET req == meta'.last.req
    IN Served("drop") /\ indexEdgeKey(req.name) \notin DOMAIN meta.kv
       /\ meta'.last.fault # "getEdgeType"
       => /\ meta'.code = IF req.ifExists THEN SUCCEEDED ELSE MetaEdgeNotFound
          /\ meta'.kv = meta.kv
          /\ meta'.finished = 1
C40_DropMissingEdge == [][DropMissing]_vars
\* After e1 was dropped, a second drop of e1 with if_exists was answered
\* SUCCEEDED and left the entries of e2.
C40_Witness ==
    /\ meta.served = 2 /\ meta.last = [kind |-> "drop", req |-> DropReq("e1", TRUE), fault |-> NoFault]
    /\ meta.code = SUCCEEDED /\ meta.finished = 1
    /\ DOMAIN meta.kv = {indexEdgeKey("e2"), schemaEdgeKey(2, 0)}

====
